---- MODULE Spec2Model ----
(***************************************************************************)
(* Model of the groov waveform-analysis pipeline:                          *)
(*   - the binary waveform cache codec       (src/bun/waveformCache.ts)    *)
(*   - the main-process request handlers     (src/bun/index.ts)            *)
(*   - the analysis pipeline and summarizer  (waveformAnalysis, stored in  *)
(*     src/mainview/components/LeftPanel.tsx from line 264 on)             *)
(*   - the webview's loadTrackPayload        (src/mainview/App.tsx)        *)
(***************************************************************************)
EXTENDS Integers, Sequences, FiniteSets, TLC

(***************************************************************************)
(* JavaScript numbers.  A number is NaN, an infinity, or a finite dyadic   *)
(* value (-1)^s * m * 2^e, kept canonical (m odd, or m = 0 and e = 0).     *)
(* Mantissas stay below 2^31; a value with more than 24 significant bits   *)
(* is a double that no float32 represents.                                 *)
(***************************************************************************)
Fin(s, m, e) == [t |-> "fin", s |-> s, m |-> m, e |-> e]

NaN == [t |-> "nan", s |-> 0, m |-> 0, e |-> 0]

Inf(s) == [t |-> "inf", s |-> s, m |-> 0, e |-> 0]

Null == [t |-> "null", s |-> 0, m |-> 0, e |-> 0]

Zero == Fin(0, 0, 0)

Max(a, b) == IF a >= b THEN a ELSE b

Min(a, b) == IF a <= b THEN a ELSE b

RECURSIVE BitLen(_)
BitLen(m) == IF m = 0 THEN 0 ELSE 1 + BitLen(m \div 2)

RECURSIVE Canon(_, _, _)
Canon(s, m, e) ==
    IF m = 0 THEN Fin(s, 0, 0)
    ELSE IF m % 2 = 0 THEN Canon(s, m \div 2, e + 1)
    ELSE Fin(s, m, e)

IsFinite(x) == x.t = "fin"

(* m / 2^sh rounded to the nearest integer, ties to even (IEEE 754). *)
RoundShift(m, sh) ==
    IF sh > BitLen(m) THEN 0
    ELSE LET q == m \div (2 ^ sh)
             r == m % (2 ^ sh)
             half == 2 ^ (sh - 1)
         IN  IF r > half \/ (r = half /\ q % 2 = 1) THEN q + 1 ELSE q

(***************************************************************************)
(* Buffer.writeFloatLE / Float32Array store: the four little-endian bytes  *)
(* of the float32 nearest to x.                                            *)
(***************************************************************************)
F32Bytes(be, frac, s) ==
    << frac % 256,
       (frac \div 256) % 256,
       (be % 2) * 128 + (frac \div 65536),
       s * 128 + (be \div 2) >>

WriteFloatLEDropsLowBits(x) ==
    IF x.t = "nan" \/ x.t = "null" THEN F32Bytes(255, 4194304, 0)
    ELSE IF x.t = "inf" THEN F32Bytes(255, 0, x.s)
    ELSE IF x.m = 0 THEN F32Bytes(0, 0, x.s)
    ELSE LET L == BitLen(x.m)
             E == x.e + L - 1
             q == IF L <= 24 THEN x.m * (2 ^ (24 - L))
                  ELSE x.m \div (2 ^ (L - 24))
         IN  F32Bytes(Max(0, Min(254, E + 127)), q - 8388608, x.s)

WriteFloatLE(x) ==
    IF x.t = "nan" \/ x.t = "null" THEN F32Bytes(255, 4194304, 0)
    ELSE IF x.t = "inf" THEN F32Bytes(255, 0, x.s)
    ELSE IF x.m = 0 THEN F32Bytes(0, 0, x.s)
    ELSE LET L == BitLen(x.m)
             E == x.e + L - 1
             u == Max(E - 23, -149)
             q == IF x.e >= u THEN x.m * (2 ^ (x.e - u))
                  ELSE RoundShift(x.m, u - x.e)
             be0 == IF E >= -126 THEN E + 127 ELSE 0
             total == be0 * 8388608 + (IF E >= -126 THEN q - 8388608 ELSE q)
         IN  IF E > 127 \/ total \div 8388608 >= 255
             THEN F32Bytes(255, 0, x.s)
             ELSE F32Bytes(total \div 8388608, total % 8388608, x.s)

(* DataView.getFloat32(_, true) / Float32Array load. *)
ReadFloatLE(b) ==
    LET s == b[4] \div 128
        be == (b[4] % 128) * 2 + (b[3] \div 128)
        frac == (b[3] % 128) * 65536 + b[2] * 256 + b[1]
    IN  IF be = 255 THEN (IF frac = 0 THEN Inf(s) ELSE NaN)
        ELSE IF be = 0 THEN Canon(s, frac, -149)
        ELSE Canon(s, 8388608 + frac, be - 150)

(* Buffer.writeUInt32LE *)
WriteUInt32LE(v) ==
    << v % 256, (v \div 256) % 256, (v \div 65536) % 256, v \div 16777216 >>

(* DataView.getUint32(_, true) *)
GetUint32(b) == b[1] + 256 * b[2] + 65536 * b[3] + 16777216 * b[4]

Slice(bytes, from, len) == [i \in 1..len |-> bytes[from + i]]

(* Float32Array.from(values) seen as its underlying bytes. *)
RECURSIVE FloatsToBytes(_)
FloatsToBytes(xs) ==
    IF xs = <<>> THEN <<>>
    ELSE WriteFloatLE(Head(xs)) \o FloatsToBytes(Tail(xs))

(* Array.from(new Float32Array(buffer)) for a buffer of 4*n bytes. *)
BytesToFloats(bytes, from, n) ==
    [i \in 1..n |-> ReadFloatLE(Slice(bytes, from + 4 * (i - 1), 4))]

(***************************************************************************)
(* WaveformPayload and its cache encoding.                                 *)
(***************************************************************************)
Payload(peaks, bands, bpm, conf, off, bpb) ==
    [peaks |-> peaks, bands |-> bands, bpm |-> bpm, bpmConfidence |-> conf,
     beatOffset |-> off, beatsPerBar |-> bpb]

NoPayload == [null |-> TRUE]

HEADER_BYTES == 24

EncodeWaveformBinary(payload) ==
    LET peaks == FloatsToBytes(payload.peaks)
        bands == FloatsToBytes(payload.bands)
        header ==
            WriteUInt32LE(Len(payload.peaks))
            \o WriteUInt32LE(Len(payload.bands))
            \o WriteFloatLE(IF payload.bpm = Null THEN NaN ELSE payload.bpm)
            \o WriteFloatLE(payload.bpmConfidence)
            \o WriteFloatLE(payload.beatOffset)
            \o WriteUInt32LE(payload.beatsPerBar)
    IN  header \o peaks \o bands

DecodeAcceptsLongerInput(bytes) ==
    IF Len(bytes) < HEADER_BYTES THEN NoPayload
    ELSE LET peaksLength == GetUint32(Slice(bytes, 0, 4))
             bandsLength == GetUint32(Slice(bytes, 4, 4))
             expectedBytes == HEADER_BYTES + (peaksLength + bandsLength) * 4
         IN  IF Len(bytes) < expectedBytes THEN NoPayload
             ELSE Payload(BytesToFloats(bytes, HEADER_BYTES, peaksLength),
                          BytesToFloats(bytes, HEADER_BYTES + peaksLength * 4,
                                        bandsLength),
                          Null, Zero, Zero, 4)

DecodeWaveformBinary(bytes) ==
    IF Len(bytes) < HEADER_BYTES THEN NoPayload
    ELSE LET peaksLength == GetUint32(Slice(bytes, 0, 4))
             bandsLength == GetUint32(Slice(bytes, 4, 4))
             bpmRaw == ReadFloatLE(Slice(bytes, 8, 4))
             bpmConfidence == ReadFloatLE(Slice(bytes, 12, 4))
             beatOffset == ReadFloatLE(Slice(bytes, 16, 4))
             beatsPerBar == GetUint32(Slice(bytes, 20, 4))
             expectedBytes == HEADER_BYTES + (peaksLength + bandsLength) * 4
             peaksStart == HEADER_BYTES
             peaksEnd == peaksStart + peaksLength * 4
             bandsStart == peaksEnd
         IN  IF Len(bytes) # expectedBytes THEN NoPayload
             ELSE Payload(BytesToFloats(bytes, peaksStart, peaksLength),
                          BytesToFloats(bytes, bandsStart, bandsLength),
                          IF IsFinite(bpmRaw) THEN bpmRaw ELSE Null,
                          IF IsFinite(bpmConfidence) THEN bpmConfidence
                          ELSE Zero,
                          IF IsFinite(beatOffset) THEN beatOffset ELSE Zero,
                          Max(1, IF beatsPerBar = 0 THEN 4 ELSE beatsPerBar))

(***************************************************************************)
(* Progress values are rationals <<numerator, denominator>>, denominator   *)
(* positive.                                                               *)
(***************************************************************************)
QLeq(a, b) == a[1] * b[2] <= b[1] * a[2]

QEq(a, b) == a[1] * b[2] = b[1] * a[2]

(* Math.max(0, Math.min(1, progress)) *)
Clamp01Q(q) ==
    IF q[1] < 0 THEN <<0, 1>> ELSE IF q[1] > q[2] THEN <<1, 1>> ELSE q

(* Math.round(progress * 100) *)
RoundPct(q) == (200 * q[1] + q[2]) \div (2 * q[2])

Stages == <<"cache", "probe", "decode", "analyze">>

StageRank(stage) == CHOOSE k \in 1..4 : Stages[k] = stage

(***************************************************************************)
(* Bounds of the model.                                                    *)
(***************************************************************************)
MaxToken == 2

ShortLen == 2

LongLen == 513

Tracks == {"a", "b"}

Tokens == 1..MaxToken

WAVEFORM_RESOLUTION == 12288

CHECKPOINT_EVERY == 256

EMPTY_BEAT_ANALYSIS ==
    [bpm |-> Null, bpmConfidence |-> Zero, beatOffset |-> Zero,
     beatsPerBar |-> 4]

(***************************************************************************)
(* The analysis result of a file.  The DSP itself is not modelled: the     *)
(* numbers below stand for what the summarizer and the beat analysis       *)
(* compute for the file, float32 values in the arrays and doubles (some    *)
(* with more than 24 significant bits) in the scalars.  Track "a" is a     *)
(* file too short for a tempo (EMPTY_BEAT_ANALYSIS), track "b" one with a  *)
(* beat grid.                                                              *)
(***************************************************************************)
PcmAnalysis(track, samples) ==
    IF track = "a"
    THEN Payload([i \in 1..samples |-> Fin(0, 1, -1)],
                 [i \in 1..(3 * samples) |-> Fin(0, 11184811, -25)],
                 EMPTY_BEAT_ANALYSIS.bpm, EMPTY_BEAT_ANALYSIS.bpmConfidence,
                 EMPTY_BEAT_ANALYSIS.beatOffset,
                 EMPTY_BEAT_ANALYSIS.beatsPerBar)
    ELSE Payload([i \in 1..samples |-> Fin(0, 1, 0)],
                 [i \in 1..(3 * samples) |-> Fin(0, 5592405, -24)],
                 Fin(0, 134567891, -20), Fin(0, 715827883, -30),
                 Fin(0, 33554433, -27), 4)

(***************************************************************************)
(* waveformAnalysis: cancellation checks and the summarizer loop.          *)
(***************************************************************************)
AnyTokenCanceled(token, canceledSet) == canceledSet # {}

NeverCanceled(token, canceledSet) == FALSE

ThrowIfCanceled(token, canceledSet) == token \in canceledSet

Event(stage, progress) == [stage |-> stage, progress |-> progress]

SummarizerStart ==
    [i |-> 0, progress |-> <<>>, computed |-> 0, thrown |-> FALSE]

IsCheckpoint(i) == i % CHECKPOINT_EVERY = 0

ProgressBeforeCheck(st, samples, token, canceledSet) ==
    IF IsCheckpoint(st.i) /\ ThrowIfCanceled(token, canceledSet)
    THEN [st EXCEPT !.thrown = TRUE,
                    !.progress = Append(@, <<st.i, samples>>)]
    ELSE [i |-> st.i + 1,
          progress |-> IF IsCheckpoint(st.i)
                       THEN Append(st.progress, <<st.i, samples>>)
                       ELSE st.progress,
          computed |-> st.computed + 1,
          thrown |-> FALSE]

(* One iteration of the bucket loop of analyzeWaveformFromPcm. *)
SummarizeBucket(st, samples, token, canceledSet) ==
    IF IsCheckpoint(st.i) /\ ThrowIfCanceled(token, canceledSet)
    THEN [st EXCEPT !.thrown = TRUE]
    ELSE [i |-> st.i + 1,
          progress |-> IF IsCheckpoint(st.i)
                       THEN Append(st.progress, <<st.i, samples>>)
                       ELSE st.progress,
          computed |-> st.computed + 1,
          thrown |-> FALSE]

RECURSIVE SummarizerLoop(_, _, _, _)
SummarizerLoop(st, samples, token, canceledSet) ==
    IF st.thrown \/ st.i >= samples THEN st
    ELSE SummarizerLoop(SummarizeBucket(st, samples, token, canceledSet),
                        samples, token, canceledSet)

AnalyzeWaveformFromPcmNoFinal(track, pcmLength, resolution, token, canceledSet) ==
    LET samples == Min(resolution, pcmLength)
        st == SummarizerLoop(SummarizerStart, samples, token, canceledSet)
    IN  [thrown |-> st.thrown, progress |-> st.progress,
         payload |-> IF st.thrown THEN NoPayload
                     ELSE PcmAnalysis(track, samples)]

(* analyzeWaveformFromPcm: [thrown, progress values, payload]. *)
AnalyzeWaveformFromPcm(track, pcmLength, resolution, token, canceledSet) ==
    LET samples == Min(resolution, pcmLength)
        st == SummarizerLoop(SummarizerStart, samples, token, canceledSet)
    IN  IF st.thrown
        THEN [thrown |-> TRUE, progress |-> st.progress,
              payload |-> NoPayload]
        ELSE [thrown |-> FALSE,
              progress |-> Append(st.progress, <<1, 1>>),
              payload |-> PcmAnalysis(track, samples)]

(* analyzeWaveform up to its await of decodeMonoPcm. *)
AnalyzeEntry(token, canceledSet) ==
    IF ThrowIfCanceled(token, canceledSet)
    THEN [thrown |-> TRUE, events |-> <<>>]
    ELSE [thrown |-> FALSE, events |-> <<Event("probe", <<1, 4>>)>>]

AnalyzeAfterDecodeUnchecked(track, pcmLength, resolution, token, canceledSet) ==
    LET r == AnalyzeWaveformFromPcm(track, pcmLength, resolution, token, {})
    IN  [thrown |-> FALSE,
         events |-> <<Event("decode", <<1, 1>>)>>
                    \o [k \in 1..Len(r.progress) |->
                           Event("analyze", r.progress[k])],
         payload |-> r.payload]

(* analyzeWaveform after decodeMonoPcm has resolved. *)
AnalyzeAfterDecode(track, pcmLength, resolution, token, canceledSet) ==
    IF ThrowIfCanceled(token, canceledSet)
    THEN [thrown |-> TRUE, events |-> <<>>, payload |-> NoPayload]
    ELSE LET r == AnalyzeWaveformFromPcm(track, pcmLength, resolution,
                                         token, canceledSet)
             evs == <<Event("decode", <<1, 1>>)>>
                    \o [k \in 1..Len(r.progress) |->
                           Event("analyze", r.progress[k])]
         IN  IF r.thrown \/ ThrowIfCanceled(token, canceledSet)
             THEN [thrown |-> TRUE, events |-> evs, payload |-> NoPayload]
             ELSE [thrown |-> FALSE, events |-> evs, payload |-> r.payload]

(***************************************************************************)
(* Exact arithmetic on JavaScript numbers that are rationals: <<n, d>>     *)
(* with d > 0, in lowest terms.  Rounding of doubles is not modelled.      *)
(***************************************************************************)
Abs(x) == IF x < 0 THEN -x ELSE x

RECURSIVE Gcd(_, _)
Gcd(a, b) == IF b = 0 THEN a ELSE Gcd(b, a % b)

RNorm(n, d) ==
    LET g == Gcd(Abs(n), Abs(d))
        s == IF d < 0 THEN -1 ELSE 1
    IN  << (s * n) \div g, (s * d) \div g >>

RInt(k) == << k, 1 >>

RNeg(a) == << -a[1], a[2] >>

RAdd(a, b) ==
    IF a[2] = b[2] THEN RNorm(a[1] + b[1], a[2])
    ELSE LET g == Gcd(a[2], b[2])
         IN  RNorm(a[1] * (b[2] \div g) + b[1] * (a[2] \div g),
                   (a[2] \div g) * b[2])

RSub(a, b) == RAdd(a, RNeg(b))

RMul(a, b) ==
    LET g1 == Gcd(Abs(a[1]), b[2])
        g2 == Gcd(Abs(b[1]), a[2])
    IN  IF a[1] = 0 \/ b[1] = 0 THEN << 0, 1 >>
        ELSE RNorm((a[1] \div g1) * (b[1] \div g2),
                   (a[2] \div g2) * (b[2] \div g1))

(* a / b for b # 0 *)
RDiv(a, b) == RMul(a, RNorm(b[2], b[1]))

(* a < b for non-negative a, b, without forming cross products *)
RECURSIVE RLessPos(_, _)
RLessPos(a, b) ==
    LET qa == a[1] \div a[2]
        qb == b[1] \div b[2]
        ra == a[1] % a[2]
        rb == b[1] % b[2]
    IN  IF qa # qb THEN qa < qb
        ELSE IF rb = 0 THEN FALSE
        ELSE IF ra = 0 THEN TRUE
        ELSE RLessPos(<< b[2], rb >>, << a[2], ra >>)

RLess(a, b) ==
    IF a[1] < 0 /\ b[1] >= 0 THEN TRUE
    ELSE IF a[1] >= 0 /\ b[1] < 0 THEN FALSE
    ELSE IF a[1] < 0 THEN RLessPos(RNeg(b), RNeg(a))
    ELSE RLessPos(a, b)

RLeq(a, b) == ~RLess(b, a)

RMax(a, b) == IF RLess(a, b) THEN b ELSE a

RMin(a, b) == IF RLess(b, a) THEN b ELSE a

(* Math.floor *)
RFloor(a) == a[1] \div a[2]

(* Math.round: the nearest integer, halves towards +Infinity *)
RRound(a) == RFloor(RAdd(a, << 1, 2 >>))

(* The % operator of JavaScript for period > 0: the result has the sign of *)
(* the dividend.                                                           *)
RRem(value, period) ==
    LET g == Gcd(value[2], period[2])
        vn == Abs(value[1]) * (period[2] \div g)
        pn == period[1] * (value[2] \div g)
        r == RNorm(vn % pn, (value[2] \div g) * period[2])
    IN  IF value[1] < 0 THEN RNeg(r) ELSE r

(* clamp01 *)
Clamp01(value) == RMin(RInt(1), RMax(RInt(0), value))

(* clamp *)
Clamp(value, min, max) == RMax(min, RMin(max, value))

(* wrap *)
Wrap(value, period) ==
    IF RLeq(period, RInt(0)) THEN value
    ELSE LET wrapped == RRem(value, period)
         IN  IF RLess(wrapped, RInt(0)) THEN RAdd(wrapped, period)
             ELSE wrapped

(***************************************************************************)
(* Beat analysis (waveformAnalysis: findBestTempo, the beat tracker, the   *)
(* grid regularizer).  JavaScript arrays are sequences read with At, which *)
(* takes the 0-based index of the source.                                  *)
(***************************************************************************)
At(xs, i) == xs[i + 1]

(* parabolicPeakOffset; 1e-8 is the threshold of the source *)
ParabolicPeakOffset(left, center, right) ==
    LET denominator == RAdd(RSub(left, RMul(RInt(2), center)), right)
        magnitude == IF RLess(denominator, RInt(0)) THEN RNeg(denominator)
                     ELSE denominator
    IN  IF RLess(magnitude, << 1, 100000000 >>) THEN RInt(0)
        ELSE Clamp(RDiv(RMul(<< 1, 2 >>, RSub(left, right)), denominator),
                   << -1, 2 >>, << 1, 2 >>)

(* The sum of onset[i] * onset[i - lag] for i = from .. to (both in range), *)
(* split in halves to keep the evaluation shallow.                         *)
RECURSIVE LagProducts(_, _, _, _)
LagProducts(onset, lag, from, to) ==
    IF from > to THEN RInt(0)
    ELSE IF from = to THEN RMul(At(onset, from), At(onset, from - lag))
    ELSE LET mid == (from + to) \div 2
         IN  RAdd(LagProducts(onset, lag, from, mid),
                  LagProducts(onset, lag, mid + 1, to))

(* The body of the scan for the best and the second best comb score;      *)
(* scores start at -Infinity, here the flags bestNone and secondNone.      *)
ScanLag(combFilter, lag, st) ==
    LET score == At(combFilter, lag)
    IN  IF st.bestNone \/ RLess(st.bestScore, score)
        THEN [bestLag |-> lag, bestScore |-> score, bestNone |-> FALSE,
              secondBestScore |-> st.bestScore, secondNone |-> st.bestNone]
        ELSE IF st.secondNone \/ RLess(st.secondBestScore, score)
        THEN [st EXCEPT !.secondBestScore = score, !.secondNone = FALSE]
        ELSE st

(* findBestTempo, its lag range *)
MinLag(sampleRate, hopSize) ==
    RFloor(RDiv(RMul(RInt(60), RNorm(sampleRate, hopSize)), RInt(220)))

MaxLag(sampleRate, hopSize) ==
    RFloor(RDiv(RMul(RInt(60), RNorm(sampleRate, hopSize)), RInt(60)))

(* The body of the autocorrelation loop: acf[lag]. *)
AcfAt(onset, lag) ==
    RDiv(LagProducts(onset, lag, lag, Len(onset) - 1),
         RInt(Max(1, Len(onset) - lag)))

(* The body of the comb loop: combFilter[lag]. *)
CombAt(acf, lag, minLag, maxLag, frameRate) ==
    LET bpm == RDiv(RMul(RInt(60), frameRate), RInt(lag))
        halfLag == RRound(<< lag, 2 >>)
        s1 == IF halfLag >= minLag
              THEN RAdd(At(acf, lag), RMul(At(acf, halfLag), << 1, 2 >>))
              ELSE At(acf, lag)
        s2 == IF lag * 2 <= maxLag
              THEN RAdd(s1, RMul(At(acf, lag * 2), << 1, 2 >>))
              ELSE s1
        s3 == IF lag * 3 <= maxLag
              THEN RAdd(s2, RMul(At(acf, lag * 3), << 1, 4 >>))
              ELSE s2
    IN  IF RLeq(RInt(100), bpm) /\ RLeq(bpm, RInt(140))
        THEN RMul(s3, << 23, 20 >>)
        ELSE IF RLeq(RInt(85), bpm) /\ RLeq(bpm, RInt(160))
        THEN RMul(s3, << 21, 20 >>)
        ELSE s3

(* Before the scan: bestLag = minLag, both scores -Infinity. *)
ScanStart(minLag) ==
    [bestLag |-> minLag, bestScore |-> RInt(0), bestNone |-> TRUE,
     secondBestScore |-> RInt(0), secondNone |-> TRUE]

(* findBestTempo after the scan: the refined lag, the half-lag choice and  *)
(* the confidence.                                                         *)
PickTempo(combFilter, best, minLag, maxLag, frameRate) ==
    LET beatLags == RMul(RInt(60), frameRate)
        leftLag == Max(minLag, best.bestLag - 1)
        rightLag == Min(maxLag, best.bestLag + 1)
        refinedLag == RAdd(RInt(best.bestLag),
                           ParabolicPeakOffset(At(combFilter, leftLag),
                                               At(combFilter, best.bestLag),
                                               At(combFilter, rightLag)))
        halfLag == RRound(RDiv(refinedLag, RInt(2)))
        bpmAtBest == RDiv(beatLags, refinedLag)
        halfScore == At(combFilter, halfLag)
        contrast == RDiv(RSub(best.bestScore, best.secondBestScore),
                         RAdd(best.bestScore, << 1, 1000 >>))
    IN  IF /\ halfLag >= minLag
           /\ RLess(bpmAtBest, RInt(100))
           /\ RLeq(RInt(100), RDiv(beatLags, RInt(halfLag)))
           /\ RLeq(RDiv(beatLags, RInt(halfLag)), RInt(180))
           /\ RLess(RMul(best.bestScore, << 7, 10 >>), halfScore)
        THEN [periodFrames |-> RInt(halfLag),
              confidence |->
                  Clamp01(RMul(RDiv(halfScore,
                                    RAdd(best.bestScore, << 1, 1000 >>)),
                               << 4, 5 >>))]
        ELSE [periodFrames |-> refinedLag,
              confidence |-> Clamp01(RMul(contrast, RInt(2)))]

(* One iteration of the inner loop of the beat tracker: predecessor j of   *)
(* frame i.                                                                *)
PredecessorStep(score, onset, periodFrames, i, j, st) ==
    LET distance == RSub(RInt(i - j), periodFrames)
        deviation == RDiv(IF RLess(distance, RInt(0)) THEN RNeg(distance)
                          ELSE distance,
                          periodFrames)
        transitionPenalty == RMul(RInt(100), RMul(deviation, deviation))
        candidateScore ==
            RSub(RAdd(At(score, j), At(onset, i)), transitionPenalty)
    IN  IF RLess(st.bestPrevScore, candidateScore)
        THEN [bestPrevScore |-> candidateScore, bestPrev |-> j]
        ELSE st

(* The inner loop, j = high down to low, split in halves. *)
RECURSIVE BestPredecessor(_, _, _, _, _, _, _)
BestPredecessor(score, onset, periodFrames, i, high, low, st) ==
    IF high < low THEN st
    ELSE IF high = low
    THEN PredecessorStep(score, onset, periodFrames, i, high, st)
    ELSE LET mid == (high + low) \div 2
             half == BestPredecessor(score, onset, periodFrames, i, high,
                                     mid + 1, st)
         IN  IF half.bestPrev >= -1
             THEN BestPredecessor(score, onset, periodFrames, i, mid, low,
                                  half)
             ELSE half

(* The body of the forward loop of the beat tracker: score[i] and          *)
(* predecessor[i].                                                         *)
ForwardStep(onset, periodFrames, i, score) ==
    LET minPeriod == RMul(periodFrames, << 4, 5 >>)
        maxPeriod == RMul(periodFrames, << 6, 5 >>)
        searchStart == Max(0, RFloor(RSub(RInt(i), maxPeriod)))
        searchEnd == Max(0, RFloor(RSub(RInt(i), minPeriod)))
    IN  BestPredecessor(score, onset, periodFrames, i, searchEnd,
                        searchStart,
                        [bestPrevScore |-> At(onset, i), bestPrev |-> -1])

(* A scan that always ends at the last frame. *)
BestEndLast(score, from, to) == [frame |-> to, score |-> At(score, to)]

(* The scan for bestEnd over frames from .. to, split in halves: the first *)
(* frame with the greatest score, and that score.                          *)
RECURSIVE BestEnd(_, _, _)
BestEnd(score, from, to) ==
    IF from = to THEN [frame |-> from, score |-> At(score, from)]
    ELSE LET mid == (from + to) \div 2
             left == BestEnd(score, from, mid)
             right == BestEnd(score, mid + 1, to)
         IN  IF RLess(left.score, right.score) THEN right ELSE left

RECURSIVE BacktrackNotReversed(_, _, _)
BacktrackNotReversed(predecessor, current, beats) ==
    IF current < 0 THEN beats
    ELSE BacktrackNotReversed(predecessor, At(predecessor, current),
                              beats \o << current >>)

RECURSIVE Backtrack(_, _, _)
Backtrack(predecessor, current, beats) ==
    IF current < 0 THEN beats
    ELSE Backtrack(predecessor, At(predecessor, current),
                   << current >> \o beats)

RECURSIVE Insert(_, _)
Insert(sorted, x) ==
    IF sorted = << >> THEN << x >>
    ELSE IF x < Head(sorted) THEN << x >> \o sorted
    ELSE << Head(sorted) >> \o Insert(Tail(sorted), x)

(* Array.prototype.sort((a, b) => a - b) on integers *)
RECURSIVE SortAscending(_)
SortAscending(xs) ==
    IF xs = << >> THEN << >>
    ELSE Insert(SortAscending(Tail(xs)), Head(xs))

RECURSIVE SumSeq(_)
SumSeq(xs) == IF xs = << >> THEN 0 ELSE Head(xs) + SumSeq(Tail(xs))

(* The two while loops that close regularizeBeatGrid. *)
RECURSIVE IntoPeriod(_, _)
IntoPeriod(offset, period) ==
    IF RLess(period, offset) THEN IntoPeriod(RSub(offset, period), period)
    ELSE IF RLess(offset, RInt(0))
    THEN IntoPeriod(RAdd(offset, period), period)
    ELSE offset

(* regularizeBeatGrid; beat positions are whole sample indices *)
RegularizeBeatGrid(beatSamples, estimatedPeriodSamples) ==
    IF Len(beatSamples) < 4
    THEN [offset |-> IF beatSamples = << >> THEN RInt(0)
                     ELSE RInt(At(beatSamples, 0)),
          period |-> estimatedPeriodSamples]
    ELSE LET intervals ==
                 SortAscending([i \in 1..(Len(beatSamples) - 1) |->
                                   beatSamples[i + 1] - beatSamples[i]])
             q1 == At(intervals, Len(intervals) \div 4)
             q3 == At(intervals, (3 * Len(intervals)) \div 4)
             iqr == q3 - q1
             lowerBound == RSub(RInt(q1), RMul(<< 3, 2 >>, RInt(iqr)))
             upperBound == RAdd(RInt(q3), RMul(<< 3, 2 >>, RInt(iqr)))
             filteredIntervals ==
                 SelectSeq(intervals,
                           LAMBDA i : /\ RLeq(lowerBound, RInt(i))
                                      /\ RLeq(RInt(i), upperBound))
             medianPeriod ==
                 IF Len(filteredIntervals) > 0
                 THEN RInt(At(filteredIntervals, Len(filteredIntervals) \div 2))
                 ELSE estimatedPeriodSamples
             n == Len(beatSamples)
             sumX == SumSeq([i \in 1..n |-> i - 1])
             sumY == SumSeq(beatSamples)
             sumXY == SumSeq([i \in 1..n |-> (i - 1) * beatSamples[i]])
             sumXX == SumSeq([i \in 1..n |-> (i - 1) * (i - 1)])
             denom == n * sumXX - sumX * sumX
             slope == RNorm(n * sumXY - sumX * sumY, denom)
             intercept == RDiv(RSub(RInt(sumY), RMul(slope, RInt(sumX))),
                               RInt(n))
             period == IF denom # 0
                       THEN Clamp(slope, RMul(medianPeriod, << 49, 50 >>),
                                  RMul(medianPeriod, << 51, 50 >>))
                       ELSE medianPeriod
             offset == IF denom # 0 THEN Wrap(intercept, period)
                       ELSE RInt(At(beatSamples, 0))
         IN  [offset |-> IntoPeriod(offset, period), period |-> period]

(***************************************************************************)
(* The beat analysis on its own: analyzeBeatGrid run on a mono buffer.     *)
(* The buffers are silence or impulse trains: a sample is 1 at the         *)
(* positions in `clicks` and 0 everywhere else.                            *)
(***************************************************************************)
Pcm(sampleRate, len, clicks) ==
    [sampleRate |-> sampleRate, len |-> len, clicks |-> clicks]

(* Impulses at first, first + spacing, ... below len. *)
ClickTrain(first, spacing, len) ==
    { first + k * spacing : k \in 0..((len - 1 - first) \div spacing) }

SampleRates == {100, 8140, 44100, 48000}

BeatInputs ==
    UNION { { Pcm(sr, len, {}) : len \in {0, 1, sr, 2 * sr - 1, 2 * sr} } :
            sr \in SampleRates }
    \cup { Pcm(8140, 16280, ClickTrain(401, 2640, 16280)),
           Pcm(8140, 16280, ClickTrain(5681, 2640, 16280)),
           Pcm(48000, 96000, ClickTrain(2401, 24000, 96000)),
           Pcm(48000, 96000, ClickTrain(2401, 14400, 96000)),
           Pcm(48000, 96000, ClickTrain(2401, 45600, 96000)),
           Pcm(8140, 16280,
               {40 * f + 1 : f \in {10, 76, 142, 222, 288, 354}}) }

(* |monoSamples[s] ?? 0| *)
Amplitude(pcm, s) == IF s \in pcm.clicks THEN 1 ELSE 0

(* computeMultiBandOnset for hopSize > 0.  The band filters are not        *)
(* modelled: silence gives the all-zero curve the source computes for it   *)
(* (every z-score is max(0, 0 / 1e-8)), and an impulse gives onset         *)
(* strength 3 in its frame.                                                *)
ComputeMultiBandOnset(pcm, hopSize) ==
    LET frameCount == pcm.len \div hopSize
    IN  IF frameCount < 2 THEN << >>
        ELSE [frame \in 1..frameCount |->
                 IF \E c \in pcm.clicks : c \div hopSize = frame - 1
                 THEN RInt(3) ELSE RInt(0)]

(* floor(hopSize * 0.8) *)
SearchRadius(hopSize) == (hopSize * 4) \div 5

(* The search window of refineBeatsToSamples for a beat frame. *)
SearchStart(hopSize, frame) == Max(0, frame * hopSize - SearchRadius(hopSize))

SearchEnd(pcm, hopSize, frame) ==
    Min(pcm.len - 2, frame * hopSize + SearchRadius(hopSize))

(* The score refineBeatsToSamples gives to sample s near approximateSample *)
RefineScore(pcm, onset, hopSize, approximateSample, s) ==
    LET searchRadius == SearchRadius(hopSize)
        current == Amplitude(pcm, s)
        next == Amplitude(pcm, s + 1)
        prev == Amplitude(pcm, s - 1)
        slope == next - prev
        isPeak == current >= prev /\ current >= next
        frameIndex == s \div hopSize
        onsetWeight == IF frameIndex >= 0 /\ frameIndex < Len(onset)
                       THEN At(onset, frameIndex) ELSE RInt(0)
        proximityBonus ==
            RSub(RInt(1), RMul(RNorm(Abs(s - approximateSample), searchRadius),
                               << 2, 5 >>))
    IN  RAdd(RAdd(<< slope, 2 >>,
                  IF isPeak THEN << 3 * current, 10 >> ELSE RInt(0)),
             RAdd(RMul(onsetWeight, << 3, 20 >>),
                  RMul(proximityBonus, << 1, 20 >>)))

(* EMPTY_BEAT_ANALYSIS and the other results, with exact scalars *)
BeatGrid(bpm, bpmConfidence, beatOffset, beatsPerBar) ==
    [bpmNull |-> FALSE, bpm |-> bpm, bpmConfidence |-> bpmConfidence,
     beatOffset |-> beatOffset, beatsPerBar |-> beatsPerBar]

EmptyBeatGrid ==
    [bpmNull |-> TRUE, bpm |-> RInt(0), bpmConfidence |-> RInt(0),
     beatOffset |-> RInt(0), beatsPerBar |-> EMPTY_BEAT_ANALYSIS.beatsPerBar]

(* beatOffset: finalOffset / sampleRate *)
OffsetInSamples(finalOffset, sampleRate) == finalOffset
OffsetSeconds(finalOffset, sampleRate) == RDiv(finalOffset, RInt(sampleRate))

(* The result of analyzeBeatGrid when the tracker found under 4 beats. *)
FewBeatsKeepsPhase(bpm, tempoConfidence) == BeatGrid(bpm, RMul(tempoConfidence, << 1, 2 >>), << 1, 4 >>, 4)
FewBeatsResult(bpm, tempoConfidence) == BeatGrid(bpm, RMul(tempoConfidence, << 1, 2 >>), RInt(0), 4)

BeatOff ==
    [pc |-> "off", pcm |-> Pcm(0, 0, {}), hopSize |-> 0, onset |-> << >>,
     (* findBestTempo *)
     minLag |-> 0, maxLag |-> 0, lag |-> 0, acf |-> << >>,
     combFilter |-> << >>, best |-> ScanStart(0),
     tempoConfidence |-> RInt(0), bpm |-> RInt(0), pass |-> 0,
     (* dynamicProgrammingBeatTrack *)
     normalizedPeriod |-> RInt(0), i |-> 0, score |-> << >>,
     predecessor |-> << >>, beatFrames |-> << >>,
     (* refineBeatsToSamples *)
     s |-> 0, bestSample |-> 0, bestScore |-> RInt(0), bestNone |-> TRUE,
     beatSamples |-> << >>, offset |-> RInt(0), period |-> RInt(0),
     finalPeriod |-> RInt(0), finalOffset |-> RInt(0),
     beatSample |-> RInt(0), alignmentScore |-> RInt(0),
     alignmentCount |-> 0, result |-> EmptyBeatGrid,
     (* history, read only by the properties *)
     refined |-> FALSE, regularized |-> FALSE, doublings |-> 0,
     halvings |-> 0, tracked |-> -1]

(***************************************************************************)
(* The summarizer's numbers (analyzeWaveformFromPcm, analyzeBands,         *)
(* normalizeBand) on sparse buffers: silence with impulses of one          *)
(* amplitude.  Such buffers keep the arithmetic exact: a frame with one     *)
(* non-zero sample has the same DFT magnitude in every bin, a band channel  *)
(* takes at most two values, and x ** 0.72 and x ** 1.45 are only taken at  *)
(* 0 and 1.  Rounding to single precision is not modelled.                  *)
(***************************************************************************)
WavePcm(sampleRate, len, clicks, amp) ==
    [sampleRate |-> sampleRate, len |-> len, clicks |-> clicks, amp |-> amp]

(* monoSamples[k] ?? 0 *)
SampleAt(pcm, k) ==
    IF k \in pcm.clicks /\ k >= 0 /\ k < pcm.len THEN pcm.amp ELSE RInt(0)

RAbs(a) == IF a[1] < 0 THEN RNeg(a) ELSE a

EPSILON == << 1, 1000000 >>

FFT_SIZE == 64

(* const samples = Math.min(resolution, monoSamples.length) *)
SampleCount(pcm, resolution) == Min(resolution, pcm.len)

(* blockSize, for samples > 0 *)
BlockSize(pcm, samples) == Max(1, pcm.len \div samples)

BlockStart(pcm, samples, i) == i * BlockSize(pcm, samples)

BlockEnd(pcm, samples, i) ==
    Min(BlockStart(pcm, samples, i) + BlockSize(pcm, samples), pcm.len)

(* The peak of a block: the largest |sample| at start, start + step, ...   *)
BlockPeak(pcm, start, end) ==
    LET step == Max(1, (end - start) \div 128)
        seen == { k \in pcm.clicks :
                    k >= start /\ k < end /\ (k - start) % step = 0 }
    IN  IF seen = {} THEN RInt(0) ELSE RMax(RInt(0), RAbs(pcm.amp))

FrameStride(start, end) == Max(1, (end - start) \div FFT_SIZE)

FrameStart(start, end) ==
    Max(0, ((start + end) \div 2)
           - ((FFT_SIZE * FrameStride(start, end)) \div 2))

(* The indices n whose frame[n] is not zero.  The Hann window            *)
(* 0.5 * (1 - cos(2 pi n / 63)) is 0 at n = 0 and n = 63.                 *)
FrameSupport(pcm, start, end) ==
    { n \in 1..(FFT_SIZE - 2) :
        SampleAt(pcm, Min(pcm.len - 1,
                          FrameStart(start, end)
                              + n * FrameStride(start, end))) # RInt(0) }

(* The bins k = 1..fftSize/2 whose frequency k * rate / fftSize, with     *)
(* rate = sampleRate / frameStride, is above lo and at most hi.           *)
Bins(sampleRate, frameStride, lo, hi) ==
    { k \in 1..(FFT_SIZE \div 2) :
        /\ k * sampleRate > lo * FFT_SIZE * frameStride
        /\ k * sampleRate <= hi * FFT_SIZE * frameStride }

(* analyzeBands of a frame with the given support.  An all-zero frame has *)
(* magnitude 0 in every bin and `low + mid + high || 1` divides by 1; a    *)
(* frame with one non-zero sample has the same magnitude in every bin, so  *)
(* each band's share is its share of the bins at or below 9000 Hz.         *)
AnalyzeBands(support, sampleRate, frameStride) ==
    LET low == Cardinality(Bins(sampleRate, frameStride, -1, 220))
        mid == Cardinality(Bins(sampleRate, frameStride, 220, 2400))
        high == Cardinality(Bins(sampleRate, frameStride, 2400, 9000))
        sum == low + mid + high
    IN  CASE support = {} \/ sum = 0 -> << RInt(0), RInt(0), RInt(0) >>
          [] Cardinality(support) = 1 /\ sum > 0 ->
                << RNorm(low, sum), RNorm(mid, sum), RNorm(high, sum) >>

RECURSIVE RInsert(_, _)
RInsert(sorted, x) ==
    IF sorted = << >> THEN << x >>
    ELSE IF RLess(x, Head(sorted)) THEN << x >> \o sorted
    ELSE << Head(sorted) >> \o RInsert(Tail(sorted), x)

(* Array.from(input).sort((a, b) => a - b) *)
RECURSIVE RSort(_)
RSort(xs) ==
    IF xs = << >> THEN << >> ELSE RInsert(RSort(Tail(xs)), Head(xs))

(* x ** 0.72 and x ** 1.45, at the two arguments where they are exact *)
Pow(x) == CASE x = RInt(0) -> RInt(0) [] x = RInt(1) -> RInt(1)

(* normalizeBand *)
NormalizeBand(input) ==
    LET sorted == RSort(input)
        n == Len(sorted)
        p10 == IF n = 0 THEN RInt(0) ELSE At(sorted, n \div 10)
        p90 == IF n = 0 THEN RInt(1) ELSE At(sorted, (n * 9) \div 10)
        span == RMax(EPSILON, RSub(p90, p10))
    IN  [i \in 1..Len(input) |->
            Pow(Clamp01(RDiv(RSub(input[i], p10), span)))]

(* The last loop of analyzeWaveformFromPcm: the band triple of bucket i   *)
(* (from 0) out of the three normalized channels.                          *)
BandTriple(lowNorm, midNorm, highNorm, i) ==
    LET low == Pow(At(lowNorm, i))
        mid == Pow(At(midNorm, i))
        high == Pow(At(highNorm, i))
        denom == RAdd(RAdd(RAdd(low, mid), high), EPSILON)
    IN  << Clamp01(RDiv(low, denom)), Clamp01(RDiv(mid, denom)),
           Clamp01(RDiv(high, denom)) >>

RECURSIVE Bands(_, _, _, _)
Bands(lowNorm, midNorm, highNorm, i) ==
    IF i >= Len(lowNorm) THEN << >>
    ELSE BandTriple(lowNorm, midNorm, highNorm, i)
         \o Bands(lowNorm, midNorm, highNorm, i + 1)

WavePayload(peaks, bands, beatAnalysis) ==
    [peaks |-> peaks, bands |-> bands, bpm |-> beatAnalysis.bpm,
     bpmNull |-> beatAnalysis.bpmNull,
     bpmConfidence |-> beatAnalysis.bpmConfidence,
     beatOffset |-> beatAnalysis.beatOffset,
     beatsPerBar |-> beatAnalysis.beatsPerBar]

NoOutcome == [kind |-> "none"]

Returned(payload) == [kind |-> "returned", payload |-> payload]

Thrown(what) == [kind |-> "thrown", error |-> what]

(* The locals of analyzeWaveformFromPcm at its first statement. *)
WaveRun(pcm, resolution, token, canceledSet, run, first) ==
    LET samples == SampleCount(pcm, resolution)
    IN  [pc |-> "run", pcm |-> pcm, resolution |-> resolution,
         token |-> token, canceledSet |-> canceledSet, run |-> run,
         samples |-> samples, i |-> 0,
         peaks |-> [k \in 1..samples |-> RInt(0)],
         lowRaw |-> [k \in 1..samples |-> RInt(0)],
         midRaw |-> [k \in 1..samples |-> RInt(0)],
         highRaw |-> [k \in 1..samples |-> RInt(0)],
         bands |-> [k \in 1..(3 * samples) |-> RInt(0)],
         progress |-> << >>, outcome |-> NoOutcome, first |-> first]

WaveOff ==
    [WaveRun(WavePcm(0, 0, {}, RInt(0)), 0, 0, {}, 0, NoOutcome)
        EXCEPT !.pc = "off"]

(***************************************************************************)
(* State.                                                                  *)
(***************************************************************************)
VARIABLES
    (* main process (src/bun) *)
    canceledTokens,  \* the process-wide Set of canceled tokens
    cache,           \* waveform cache files, by analysis key
    pcmLen,          \* decoded length of each track's file, in samples
    req,             \* per token: the analyzeWaveform request being served
    rpcQueue,        \* requests sent by the webview, not yet dispatched
    toView,          \* progress messages and responses on their way back
    (* webview (src/mainview/App.tsx) *)
    decodeTokenRef, isDecoding, error, analysisLabel, waveformData,
    activeHistoryId, decodedTrackCache,
    pending,         \* tracks whose re-analysis awaits loadTrackById
    load,            \* per token: the loadTrackPayload call awaiting results
    (* history of the run, read only by the properties *)
    events,          \* per token: progress events sent, in order
    rpcLog,          \* every request the webview issued, in order
    tokenLog,        \* every token loadTrackPayload assigned, in order
    obs,             \* per token: what happened while serving the request
    (* stand-alone summarizer and codec runs *)
    sum, codec,
    (* stand-alone beat analysis run *)
    beat,
    (* stand-alone run of the summarizer with its numbers *)
    wave,
    (* stand-alone runs of the track caches and of the history store *)
    store

vars == << canceledTokens, cache, pcmLen, req, rpcQueue, toView,
           decodeTokenRef, isDecoding, error, analysisLabel, waveformData,
           activeHistoryId, decodedTrackCache, pending, load,
           events, rpcLog, tokenLog, obs, sum, codec, beat, wave,
           store >>

bunVars == << canceledTokens, cache, pcmLen, req, events, obs >>

viewVars == << decodeTokenRef, isDecoding, error, analysisLabel,
               waveformData, activeHistoryId, decodedTrackCache, pending,
               load, tokenLog >>

unitVars == << sum, codec, beat, wave, store >>

(***************************************************************************)
(* Waveform cache files (src/bun/waveformCache.ts).                        *)
(***************************************************************************)
AnalysisKey(id, forceToken) == [id |-> id, force |-> forceToken]

AllKeys == {AnalysisKey(id, f) : id \in Tracks, f \in 0..MaxToken}

NoFile == [exists |-> FALSE, bytes |-> <<>>]

File(bytes) == [exists |-> TRUE, bytes |-> bytes]

(* readWaveformFromCache once ensureStorageDirs has succeeded; fsOk is     *)
(* FALSE when the file read throws.                                        *)
ReadWaveformFromCache(files, analysisKey, fsOk) ==
    IF ~fsOk THEN NoPayload
    ELSE IF ~files[analysisKey].exists THEN NoPayload
    ELSE DecodeWaveformBinary(files[analysisKey].bytes)

(* writeWaveformToCache: the files afterwards; failures are swallowed. *)
WriteWaveformToCache(files, analysisKey, payload, fsOk) ==
    IF fsOk
    THEN [files EXCEPT ![analysisKey] = File(EncodeWaveformBinary(payload))]
    ELSE files

(***************************************************************************)
(* Main-process handlers (src/bun/index.ts).                               *)
(***************************************************************************)
(* sendProgress *)
SendProgress(token, stage, progress) ==
    [kind |-> "progress", token |-> token, stage |-> stage,
     progress |-> Clamp01Q(progress), outcome |-> "", payload |-> NoPayload]

Response(token, outcome, payload) ==
    [kind |-> "response", token |-> token, stage |-> "",
     progress |-> <<0, 1>>, outcome |-> outcome, payload |-> payload]

ProgressOf(token, evs) ==
    [k \in 1..Len(evs) |-> SendProgress(token, evs[k].stage, evs[k].progress)]

Sent(msgs) == [k \in 1..Len(msgs) |-> Event(msgs[k].stage, msgs[k].progress)]

IdleReq == [pc |-> "idle", key |-> AnalysisKey("a", 0), path |-> "a",
            resolution |-> 0, analyzed |-> NoPayload]

NoObs == [lookedUp |-> FALSE, onDisk |-> NoPayload,
          invokedCanceled |-> FALSE, foundCanceled |-> FALSE,
          decoderInvoked |-> FALSE, decodeFailed |-> FALSE,
          writeCalled |-> FALSE, cacheWritten |-> FALSE,
          outcome |-> "none", result |-> NoPayload]

(* The request ends: its response travels back to the webview. *)
Finish(token, msgs, outcome, payload, o) ==
    /\ req' = [req EXCEPT ![token].pc = "done"]
    /\ toView' = toView \o msgs \o <<Response(token, outcome, payload)>>
    /\ events' = [events EXCEPT ![token] = @ \o Sent(msgs)]
    /\ obs' = [obs EXCEPT ![token] =
                  [o EXCEPT !.outcome = outcome, !.result = payload]]

Continue(token, msgs, pc, o) ==
    /\ req' = [req EXCEPT ![token].pc = pc]
    /\ toView' = toView \o msgs
    /\ events' = [events EXCEPT ![token] = @ \o Sent(msgs)]
    /\ obs' = [obs EXCEPT ![token] = o]

(* cancelWaveformAnalysis *)
CancelWaveformAnalysis(msg) ==
    /\ msg.kind = "cancel"
    /\ canceledTokens' = canceledTokens \cup {msg.token}
    /\ UNCHANGED << cache, pcmLen, req, toView, events, obs >>

AnalyzeWaveformBeginKeepsCanceled(msg) ==
    /\ msg.kind = "analyze"
    /\ req[msg.token].pc = "idle"
    /\ canceledTokens' = canceledTokens
    /\ req' = [req EXCEPT ![msg.token] =
                  [pc |-> "cacheRead", key |-> msg.key, path |-> msg.path,
                   resolution |-> msg.resolution, analyzed |-> NoPayload]]
    /\ toView' = Append(toView, SendProgress(msg.token, "cache", <<0, 1>>))
    /\ events' = [events EXCEPT ![msg.token] =
                     Append(@, Event("cache", <<0, 1>>))]
    /\ UNCHANGED << cache, pcmLen, obs >>

(* analyzeWaveform handler up to its await of readWaveformFromCache. *)
AnalyzeWaveformBegin(msg) ==
    /\ msg.kind = "analyze"
    /\ req[msg.token].pc = "idle"
    /\ canceledTokens' = canceledTokens \ {msg.token}
    /\ req' = [req EXCEPT ![msg.token] =
                  [pc |-> "cacheRead", key |-> msg.key, path |-> msg.path,
                   resolution |-> msg.resolution, analyzed |-> NoPayload]]
    /\ toView' = Append(toView, SendProgress(msg.token, "cache", <<0, 1>>))
    /\ events' = [events EXCEPT ![msg.token] =
                     Append(@, Event("cache", <<0, 1>>))]
    /\ UNCHANGED << cache, pcmLen, obs >>

(* The webview's next request reaches its handler. *)
Dispatch ==
    /\ rpcQueue # <<>>
    /\ rpcQueue' = Tail(rpcQueue)
    /\ \/ CancelWaveformAnalysis(Head(rpcQueue))
       \/ AnalyzeWaveformBegin(Head(rpcQueue))
    /\ UNCHANGED << viewVars, rpcLog, unitVars >>

(* ensureStorageDirs throws inside readWaveformFromCache: the handler      *)
(* rejects with that error.                                                *)
CacheReadDirsFail(token) ==
    /\ req[token].pc = "cacheRead"
    /\ Finish(token, <<>>, "storageError", NoPayload, obs[token])
    /\ UNCHANGED << canceledTokens, cache, pcmLen, rpcQueue, viewVars,
                    rpcLog, unitVars >>

HitNever(cached) == FALSE

(* `if (cached)` in the analyzeWaveform handler. *)
Hit(cached) == cached # NoPayload

HitProgressNone(token) == <<>>

(* What the handler reports on a cache hit before it returns. *)
HitProgress(token) == <<SendProgress(token, "cache", <<1, 1>>)>>

(* readWaveformFromCache resolves; on a miss analyzeWaveform starts and    *)
(* runs up to its await of decodeMonoPcm.                                  *)
CacheReadDone(token, fsOk) ==
    /\ req[token].pc = "cacheRead"
    /\ LET cached == ReadWaveformFromCache(cache, req[token].key, fsOk)
           entry == AnalyzeEntry(token, canceledTokens)
           isCanceled == token \in canceledTokens
           file == cache[req[token].key]
           o == [obs[token] EXCEPT
                    !.lookedUp = TRUE,
                    !.onDisk = IF fsOk /\ file.exists
                               THEN DecodeWaveformBinary(file.bytes)
                               ELSE NoPayload]
       IN  IF Hit(cached)
           THEN Finish(token, HitProgress(token), "ok", cached, o)
           ELSE IF entry.thrown
           THEN Finish(token, ProgressOf(token, entry.events), "canceled",
                       NoPayload,
                       [o EXCEPT !.invokedCanceled = isCanceled,
                                 !.foundCanceled = isCanceled])
           ELSE Continue(token, ProgressOf(token, entry.events), "decoding",
                         [o EXCEPT !.invokedCanceled = isCanceled,
                                   !.foundCanceled = isCanceled,
                                   !.decoderInvoked = TRUE])
    /\ UNCHANGED << canceledTokens, cache, pcmLen, rpcQueue, viewVars,
                    rpcLog, unitVars >>

DecodeFailSwallowed(token) ==
    /\ req[token].pc = "decoding"
    /\ cache' = WriteWaveformToCache(cache, req[token].key,
                                     PcmAnalysis(req[token].path, 0), TRUE)
    /\ Finish(token, <<SendProgress(token, "analyze", <<1, 1>>)>>, "ok",
              PcmAnalysis(req[token].path, 0),
              [obs[token] EXCEPT !.decodeFailed = TRUE])
    /\ UNCHANGED << canceledTokens, pcmLen, rpcQueue, viewVars, rpcLog,
                    unitVars >>

(* decodeMonoPcm rejects: ffprobe or ffmpeg failed. *)
DecodeFail(token) ==
    /\ req[token].pc = "decoding"
    /\ Finish(token, <<>>, "decodeError", NoPayload,
              [obs[token] EXCEPT !.decodeFailed = TRUE])
    /\ UNCHANGED << canceledTokens, cache, pcmLen, rpcQueue, viewVars,
                    rpcLog, unitVars >>

(* decodeMonoPcm resolves: the rest of analyzeWaveform runs synchronously, *)
(* then the handler starts writeWaveformToCache.                           *)
DecodeDone(token) ==
    /\ req[token].pc = "decoding"
    /\ LET r == AnalyzeAfterDecode(req[token].path, pcmLen[req[token].path],
                                   req[token].resolution, token,
                                   canceledTokens)
           isCanceled == token \in canceledTokens
       IN  IF r.thrown
           THEN Finish(token, ProgressOf(token, r.events), "canceled",
                       NoPayload,
                       [obs[token] EXCEPT !.foundCanceled = @ \/ isCanceled])
           ELSE /\ req' = [req EXCEPT ![token].pc = "cacheWrite",
                                      ![token].analyzed = r.payload]
                /\ toView' = toView \o ProgressOf(token, r.events)
                /\ events' = [events EXCEPT ![token] =
                                 @ \o Sent(ProgressOf(token, r.events))]
                /\ obs' = [obs EXCEPT ![token].foundCanceled = @ \/ isCanceled,
                                      ![token].writeCalled = TRUE]
    /\ UNCHANGED << canceledTokens, cache, pcmLen, rpcQueue, viewVars,
                    rpcLog, unitVars >>

(* writeWaveformToCache resolves (it never rejects); the handler returns   *)
(* the analyzed payload.                                                   *)
CacheWriteDone(token, fsOk) ==
    /\ req[token].pc = "cacheWrite"
    /\ cache' = WriteWaveformToCache(cache, req[token].key,
                                     req[token].analyzed, fsOk)
    /\ Finish(token, <<>>, "ok", req[token].analyzed,
              [obs[token] EXCEPT !.cacheWritten = fsOk])
    /\ UNCHANGED << canceledTokens, pcmLen, rpcQueue, viewVars, rpcLog,
                    unitVars >>

(***************************************************************************)
(* Webview (src/mainview/App.tsx).                                         *)
(***************************************************************************)
NoError == "null"

DecodeFailedMessage == "Could not decode this audio file."

ReanalyzeFailedMessage == "Could not reload this track for re-analysis."

Label(text, pct) == [text |-> text, pct |-> pct]

ReadyLabel == Label("Ready", -1)

FailedLabel == Label("Failed", -1)

PreparingLabel == Label("Preparing", 0)

StageLabel(stage) ==
    IF stage = "cache" THEN "Cache"
    ELSE IF stage = "probe" THEN "Inspect"
    ELSE IF stage = "decode" THEN "Decode"
    ELSE "Analyze"

MAX_TRACK_CACHE_ITEMS == 4

(* Float32Array.from(values): every element rounded to float32. *)
ToFloat32Array(xs) ==
    [i \in 1..Len(xs) |-> ReadFloatLE(WriteFloatLE(xs[i]))]

(* waveformFromPayload *)
WaveformFromPayload(payload) ==
    [peaks |-> ToFloat32Array(payload.peaks),
     bands |-> ToFloat32Array(payload.bands),
     bpm |-> payload.bpm, bpmConfidence |-> payload.bpmConfidence,
     beatOffset |-> payload.beatOffset, beatsPerBar |-> payload.beatsPerBar]

CacheIndex(c, id) ==
    IF \E k \in 1..Len(c) : c[k].id = id
    THEN CHOOSE k \in 1..Len(c) : c[k].id = id
    ELSE 0

Without(c, id) == SelectSeq(c, LAMBDA item : item.id # id)

(* A lookup that leaves the order of the entries alone. *)
GetCachedTrackInPlace(c, id) == c

(* getCachedTrack: the cache afterwards (a hit becomes the newest entry). *)
GetCachedTrack(c, id) ==
    IF CacheIndex(c, id) = 0 THEN c
    ELSE Append(Without(c, id), c[CacheIndex(c, id)])

RECURSIVE EvictOldest(_)
EvictOldest(c) ==
    IF Len(c) > MAX_TRACK_CACHE_ITEMS THEN EvictOldest(Tail(c)) ELSE c

(* storeCachedTrack *)
StoreCachedTrack(c, item) == EvictOldest(Append(Without(c, item.id), item))

(***************************************************************************)
(* The in-memory track caches (loadTrackPayloadByPath, getCachedTrack and  *)
(* storeCachedTrack).  A Map is the sequence of its entries in insertion   *)
(* order; `used` lists the ids of a cache from the least to the most       *)
(* recently inserted or hit.                                               *)
(***************************************************************************)
TRACK_PAYLOAD_CACHE_LIMIT == 8

(* buildTrackId: the id changes with the file's modification time *)
BuildTrackId(path, mtime) == << path, mtime >>

NoId == << 0, 0 >>

TrackPayload(id, path) == [id |-> id, path |-> path]

Touch(used, id) == Append(SelectSeq(used, LAMBDA u : u # id), id)

Forget(used, ids) == SelectSeq(used, LAMBDA u : u \notin ids)

(* Map.set: the value of a key already present is replaced in place. *)
MapSet(c, item) ==
    IF CacheIndex(c, item.id) = 0 THEN Append(c, item)
    ELSE [c EXCEPT ![CacheIndex(c, item.id)] = item]

(* The entries of the same path with another id, which an insertion drops. *)
StaleIds(c, item) ==
    {c[k].id : k \in {k \in 1..Len(c) :
                          c[k].path = item.path /\ c[k].id # item.id}}

(* The ids deleted from the front while the Map is over its limit, each    *)
(* with the least recently used id at that moment.                         *)
RECURSIVE EvictionLog(_, _, _)
EvictionLog(c, used, limit) ==
    IF Len(c) > limit
    THEN << [id |-> c[1].id, leastRecent |-> Head(used)] >>
             \o EvictionLog(Tail(c), Forget(used, {c[1].id}), limit)
    ELSE << >>

EvictedIds(log) == {log[k].id : k \in 1..Len(log)}

(***************************************************************************)
(* The history store (src/bun/historyStore.ts).  The file is absent, holds *)
(* JSON that is no array, or holds an array of records.  An entry is its   *)
(* id, its createdAt and `name`, which stands for all its other fields;    *)
(* strings and finite numbers come back from JSON.parse as they were       *)
(* written, and every record that writeHistory wrote passes the filter of  *)
(* readHistory.                                                            *)
(***************************************************************************)
HistoryEntry(id, name, createdAt) ==
    [id |-> id, name |-> name, createdAt |-> createdAt]

NoHistoryFile == [exists |-> FALSE, isArray |-> FALSE, records |-> << >>]

HistoryFile(records) ==
    [exists |-> TRUE, isArray |-> TRUE, records |-> records]

(* Array.prototype.sort((a, b) => b.createdAt - a.createdAt), which is     *)
(* stable: x goes behind the entries that are not older than it.           *)
RECURSIVE InsertByCreatedAt(_, _)
InsertByCreatedAt(sorted, x) ==
    IF sorted = << >> THEN << x >>
    ELSE IF Head(sorted).createdAt >= x.createdAt
    THEN << Head(sorted) >> \o InsertByCreatedAt(Tail(sorted), x)
    ELSE << x >> \o sorted

RECURSIVE SortByCreatedAt(_)
SortByCreatedAt(records) ==
    IF records = << >> THEN << >>
    ELSE InsertByCreatedAt(SortByCreatedAt(SubSeq(records, 1,
                                                   Len(records) - 1)),
                           records[Len(records)])

(* readHistory *)
ReadHistory(file) ==
    IF ~file.exists \/ ~file.isArray THEN << >>
    ELSE SortByCreatedAt(file.records)

(* existing.findIndex((item) => item.id === entry.id), 1-based, or 0 *)
FindIndex(existing, id) ==
    IF \E k \in 1..Len(existing) : existing[k].id = id
    THEN CHOOSE k \in 1..Len(existing) :
             /\ existing[k].id = id
             /\ \A j \in 1..(k - 1) : existing[j].id # id
    ELSE 0

(* An upsert that stamps every entry with the current time. *)
UpsertRecordsStamped(existing, entry, maxItems, now) ==
    LET others == SelectSeq(existing, LAMBDA item : item.id # entry.id)
        next == << [entry EXCEPT !.createdAt = now] >> \o others
    IN  SubSeq(SortByCreatedAt(next), 1, Min(Len(next), maxItems))

(* upsertHistory between readHistory and writeHistory: the records that it *)
(* writes.                                                                 *)
UpsertRecords(existing, entry, maxItems, now) ==
    LET existingIndex == FindIndex(existing, entry.id)
        next == IF existingIndex > 0
                THEN [existing EXCEPT
                         ![existingIndex] =
                             [entry EXCEPT
                                 !.createdAt = existing[existingIndex].createdAt]]
                ELSE << [entry EXCEPT !.createdAt = now] >> \o existing
    IN  SubSeq(SortByCreatedAt(next), 1, Min(Len(next), maxItems))

NoUpsert == [n |-> 0, entry |-> HistoryEntry("none", "none", 0),
             pc |-> "none", existing |-> << >>, next |-> << >>]

StoreOff ==
    [mode |-> "off", trackPayloadCache |-> << >>, mtime |-> << >>,
     calls |-> {}, decodedTrackCache |-> << >>, issued |-> 0,
     history |-> NoHistoryFile, maxItems |-> 0, upserts |-> {},
     (* history, read only by the properties *)
     used |-> << >>, evictions |-> << >>, lastHit |-> NoId, resets |-> 0,
     overlapped |-> FALSE, upserted |-> {}, done |-> NoUpsert]

NoLoad == [st |-> "none", track |-> "a", web |-> "pending",
           rpc |-> "pending"]

CancelMsg(token) ==
    [kind |-> "cancel", token |-> token, key |-> AnalysisKey("a", 0),
     path |-> "a", resolution |-> 0]

AnalyzeMsg(token, key, path) ==
    [kind |-> "analyze", token |-> token, key |-> key, path |-> path,
     resolution |-> WAVEFORM_RESOLUTION]

HasPreviousOffByOne(previousToken) == previousToken > 1

(* loadTrackPayload: is there a previous analysis to cancel? *)
HasPrevious(previousToken) == previousToken > 0

(* reanalyzeCurrentTrack up to its await of loadTrackById: the guard has   *)
(* passed and the payload of the active track is on its way.               *)
ReanalyzeBegin ==
    /\ ~isDecoding
    /\ activeHistoryId # "none"
    /\ Len(tokenLog) < MaxToken
    /\ error' = NoError
    /\ pending' = pending \cup {activeHistoryId}
    /\ UNCHANGED << decodeTokenRef, isDecoding, analysisLabel, waveformData,
                    activeHistoryId, decodedTrackCache, load, tokenLog,
                    bunVars, rpcQueue, toView, rpcLog, unitVars >>

(* reanalyzeCurrentTrack when loadTrackById returned no payload. *)
ReanalyzeNoPayload(track) ==
    /\ track \in pending
    /\ pending' = pending \ {track}
    /\ error' = ReanalyzeFailedMessage
    /\ UNCHANGED << decodeTokenRef, isDecoding, analysisLabel, waveformData,
                    activeHistoryId, decodedTrackCache, load, tokenLog,
                    bunVars, rpcQueue, toView, rpcLog, unitVars >>

(* loadTrackFromHistory when the decoded track is still cached. *)
LoadCachedFromHistory(track) ==
    /\ ~isDecoding
    /\ CacheIndex(decodedTrackCache, track) # 0
    /\ error' = NoError
    /\ decodedTrackCache' = GetCachedTrack(decodedTrackCache, track)
    /\ waveformData' =
           decodedTrackCache[CacheIndex(decodedTrackCache, track)].waveformData
    /\ activeHistoryId' = track
    /\ analysisLabel' = ReadyLabel
    /\ UNCHANGED << decodeTokenRef, isDecoding, pending, load, tokenLog,
                    bunVars, rpcQueue, toView, rpcLog, unitVars >>

(* loadTrackPayload up to its await of Promise.all (or its early return    *)
(* when the decoded track is cached).                                      *)
LoadTrackPayload(track, shouldForceReanalyze) ==
    /\ Len(tokenLog) < MaxToken
    /\ LET previousToken == decodeTokenRef
           decodeToken == previousToken + 1
           hit == ~shouldForceReanalyze
                  /\ CacheIndex(decodedTrackCache, track) # 0
           analysisKey == AnalysisKey(track,
                              IF shouldForceReanalyze THEN decodeToken ELSE 0)
           cancels == IF HasPrevious(previousToken)
                      THEN <<CancelMsg(previousToken)>> ELSE <<>>
           requests == IF hit THEN cancels
                       ELSE Append(cancels,
                                AnalyzeMsg(decodeToken, analysisKey, track))
       IN  /\ decodeTokenRef' = decodeToken
           /\ tokenLog' = Append(tokenLog, decodeToken)
           /\ error' = NoError
           /\ rpcQueue' = rpcQueue \o requests
           /\ rpcLog' = rpcLog \o requests
           /\ decodedTrackCache' =
                  IF shouldForceReanalyze THEN decodedTrackCache
                  ELSE GetCachedTrack(decodedTrackCache, track)
           /\ IF hit
              THEN /\ waveformData' =
                          decodedTrackCache[CacheIndex(decodedTrackCache,
                                                       track)].waveformData
                   /\ activeHistoryId' = track
                   /\ analysisLabel' = ReadyLabel
                   /\ isDecoding' = FALSE
                   /\ load' = [load EXCEPT ![decodeToken] =
                                  [NoLoad EXCEPT !.st = "done",
                                                 !.track = track]]
              ELSE /\ waveformData' = NoPayload
                   /\ analysisLabel' = PreparingLabel
                   /\ isDecoding' = TRUE
                   /\ activeHistoryId' = activeHistoryId
                   /\ load' = [load EXCEPT ![decodeToken] =
                                  [NoLoad EXCEPT !.st = "awaiting",
                                                 !.track = track]]
    /\ UNCHANGED << bunVars, toView, unitVars >>

(* openFilePicker or loadTrackFromHistory hands its payload over.  Their   *)
(* guard (not decoding) is checked before they await the payload, so the   *)
(* call can arrive while a load is in flight.                              *)
LoadPicked(track) ==
    /\ LoadTrackPayload(track, FALSE)
    /\ UNCHANGED pending

(* reanalyzeCurrentTrack hands its payload over. *)
LoadReanalyze(track) ==
    /\ track \in pending
    /\ pending' = pending \ {track}
    /\ LoadTrackPayload(track, TRUE)

AlwaysCurrent(tokenRef, decodeToken) == FALSE

(* The check `decodeTokenRef.current !== decodeToken`. *)
IsStale(tokenRef, decodeToken) == tokenRef # decodeToken

(* loadTrackPayload after Promise.all has rejected: catch and finally. *)
LoadRejected(t, l) ==
    /\ load' = [load EXCEPT ![t] = [l EXCEPT !.st = "done"]]
    /\ IF IsStale(decodeTokenRef, t)
       THEN UNCHANGED << waveformData, error, analysisLabel, isDecoding,
                         activeHistoryId, decodedTrackCache >>
       ELSE /\ waveformData' = NoPayload
            /\ error' = DecodeFailedMessage
            /\ analysisLabel' = FailedLabel
            /\ isDecoding' = FALSE
            /\ UNCHANGED << activeHistoryId, decodedTrackCache >>

(* loadTrackPayload after Promise.all has resolved, up to finally. *)
LoadResolved(t, l, waveformPayload) ==
    /\ load' = [load EXCEPT ![t] = [l EXCEPT !.st = "done"]]
    /\ IF IsStale(decodeTokenRef, t)
       THEN UNCHANGED << waveformData, error, analysisLabel, isDecoding,
                         activeHistoryId, decodedTrackCache >>
       ELSE /\ waveformData' = WaveformFromPayload(waveformPayload)
            /\ activeHistoryId' = l.track
            /\ analysisLabel' = ReadyLabel
            /\ decodedTrackCache' =
                   StoreCachedTrack(decodedTrackCache,
                       [id |-> l.track,
                        waveformData |-> WaveformFromPayload(waveformPayload)])
            /\ isDecoding' = FALSE
            /\ error' = error

(* The analysisProgress listener registered by App. *)
OnAnalysisProgress(msg) ==
    /\ msg.kind = "progress"
    /\ analysisLabel' =
           IF msg.token # decodeTokenRef THEN analysisLabel
           ELSE Label(StageLabel(msg.stage), RoundPct(msg.progress))
    /\ UNCHANGED << waveformData, error, isDecoding, activeHistoryId,
                    decodedTrackCache, load >>

(* The analyzeWaveform request of token msg.token resolves or rejects and *)
(* Promise.all settles.  context.decodeAudioData, which works on bytes the *)
(* webview already holds, has settled by then: webOk tells how.            *)
OnResponse(msg, webOk) ==
    /\ msg.kind = "response"
    /\ IF msg.outcome = "ok" /\ webOk
       THEN LoadResolved(msg.token,
                         [load[msg.token] EXCEPT !.rpc = "ok", !.web = "ok"],
                         msg.payload)
       ELSE LoadRejected(msg.token,
                         [load[msg.token] EXCEPT
                             !.rpc = msg.outcome,
                             !.web = IF webOk THEN "ok" ELSE "fail"])

(* The webview takes the next message from the main process. *)
ViewReceive ==
    /\ toView # <<>>
    /\ toView' = Tail(toView)
    /\ \/ OnAnalysisProgress(Head(toView))
       \/ \E webOk \in BOOLEAN : OnResponse(Head(toView), webOk)
    /\ UNCHANGED << decodeTokenRef, pending, tokenLog, bunVars, rpcQueue,
                    rpcLog, unitVars >>

(***************************************************************************)
(* The application: webview and main process.                              *)
(***************************************************************************)
SumOff == [pc |-> "off", st |-> SummarizerStart, samples |-> 0, token |-> 0,
           canceledSet |-> {}, canceledAt |-> -1]

CodecOff == [pc |-> "off", src |-> "none", payload |-> NoPayload,
             bytes |-> <<>>, out |-> NoPayload, peaksLen |-> -1,
             bandsLen |-> -1]

(* The cache directory outlives the process.  An earlier session has left  *)
(* the encoding of track "a"'s analysis and a file cut short for track     *)
(* "b"; no forced key has a file.                                          *)
EarlierFile(track, len) ==
    IF track = "a" THEN File(EncodeWaveformBinary(PcmAnalysis(track, len)))
    ELSE File(SubSeq(EncodeWaveformBinary(PcmAnalysis(track, len)), 1, 27))

InitApp(lens) ==
    /\ canceledTokens = {}
    /\ pcmLen \in [Tracks -> lens]
    /\ cache = [k \in AllKeys |->
                    IF k.force # 0 THEN NoFile
                    ELSE EarlierFile(k.id, pcmLen[k.id])]
    /\ req = [t \in Tokens |-> IdleReq]
    /\ rpcQueue = <<>>
    /\ toView = <<>>
    /\ decodeTokenRef = 0
    /\ isDecoding = FALSE
    /\ error = NoError
    /\ analysisLabel = ReadyLabel
    /\ waveformData = NoPayload
    /\ activeHistoryId = "none"
    /\ decodedTrackCache = <<>>
    /\ pending = {}
    /\ load = [t \in Tokens |-> NoLoad]
    /\ events = [t \in Tokens |-> <<>>]
    /\ rpcLog = <<>>
    /\ tokenLog = <<>>
    /\ obs = [t \in Tokens |-> NoObs]

Init ==
    /\ InitApp({ShortLen})
    /\ sum = SumOff
    /\ codec = CodecOff
    /\ beat = BeatOff
    /\ wave = WaveOff
    /\ store = StoreOff

Next ==
    \/ ReanalyzeBegin
    \/ \E track \in Tracks : ReanalyzeNoPayload(track)
    \/ \E track \in Tracks : LoadCachedFromHistory(track)
    \/ \E track \in Tracks : LoadPicked(track)
    \/ \E track \in Tracks : LoadReanalyze(track)
    \/ ViewReceive
    \/ Dispatch
    \/ \E t \in Tokens : CacheReadDirsFail(t)
    \/ \E t \in Tokens, fsOk \in BOOLEAN : CacheReadDone(t, fsOk)
    \/ \E t \in Tokens : DecodeFail(t)
    \/ \E t \in Tokens : DecodeDone(t)
    \/ \E t \in Tokens, fsOk \in BOOLEAN : CacheWriteDone(t, fsOk)

Spec == Init /\ [][Next]_vars

(***************************************************************************)
(* The summarizer on its own: analyzeWaveformFromPcm run bucket by bucket  *)
(* on a buffer of `samples` buckets.  The progress callback is the         *)
(* caller's code and runs inside the loop; here it may cancel the token.   *)
(***************************************************************************)
SumLens ==
    {0, 1, CHECKPOINT_EVERY - 1, CHECKPOINT_EVERY, CHECKPOINT_EVERY + 1,
     2 * CHECKPOINT_EVERY, LongLen}

InitSummarizer ==
    /\ InitApp({ShortLen})
    /\ codec = CodecOff
    /\ beat = BeatOff
    /\ wave = WaveOff
    /\ store = StoreOff
    /\ \E n \in SumLens, c \in {{}, {1}, {2}} :
          sum = [pc |-> "run", st |-> SummarizerStart,
                 samples |-> Min(WAVEFORM_RESOLUTION, n), token |-> 1,
                 canceledSet |-> c, canceledAt |-> -1]

SumBucket(callbackCancels) ==
    /\ sum.pc = "run"
    /\ sum.st.i < sum.samples
    /\ LET st == SummarizeBucket(sum.st, sum.samples, sum.token,
                                 sum.canceledSet)
           reported == Len(st.progress) > Len(sum.st.progress)
       IN  sum' = [sum EXCEPT
                      !.st = st,
                      !.pc = IF st.thrown THEN "thrown" ELSE "run",
                      !.canceledAt =
                          IF /\ sum.st.i % CHECKPOINT_EVERY = 0
                             /\ sum.token \in sum.canceledSet
                          THEN sum.st.i ELSE @,
                      !.canceledSet =
                          IF reported /\ callbackCancels
                          THEN @ \cup {sum.token} ELSE @]
    /\ UNCHANGED << bunVars, viewVars, rpcQueue, toView, rpcLog, codec,
                    beat, wave, store >>

(* After the loop: beat analysis, onProgress(1), return. *)
SumReturn ==
    /\ sum.pc = "run"
    /\ sum.st.i >= sum.samples
    /\ sum' = [sum EXCEPT !.pc = "returned",
                          !.st.progress = Append(@, <<1, 1>>)]
    /\ UNCHANGED << bunVars, viewVars, rpcQueue, toView, rpcLog, codec,
                    beat, wave, store >>

NextSummarizer ==
    \/ \E callbackCancels \in BOOLEAN : SumBucket(callbackCancels)
    \/ SumReturn

SpecSummarizer == InitSummarizer /\ [][NextSummarizer]_vars

(***************************************************************************)
(* The cache codec on its own: payloads as the analysis produces them are  *)
(* encoded, possibly damaged, and decoded; arbitrary files are decoded.    *)
(***************************************************************************)
MaxBuckets == 1

MaxBody == 9

PeakValues == {Fin(0, 1, -1), Fin(0, 12345679, -24)}

BandValues == {Zero, Fin(0, 5592405, -24)}

BpmValues == {Null, Fin(0, 15, 3), Fin(0, 134567893, -20)}

ConfidenceValues == {Zero, Fin(0, 3, -2), Fin(0, 715827883, -30)}

OffsetValues == {Zero, Fin(0, 33554433, -27)}

AnalysisPayloads ==
    { Payload(peaks, bands, bpm, conf, off, 4) :
        <<peaks, bands>> \in
            UNION { [1..n -> PeakValues] \X [1..(3 * n) -> BandValues] :
                    n \in 0..MaxBuckets },
        bpm \in BpmValues, conf \in ConfidenceValues, off \in OffsetValues }

HeaderLengths == {0, 1, 2, 100000000}

HeaderFloats == {NaN, Inf(1), Fin(0, 15, 3)}

HeaderBeats == {0, 1, 4}

RawFiles ==
    { [peaksLen |-> p, bandsLen |-> b,
       bytes |-> WriteUInt32LE(p) \o WriteUInt32LE(b) \o WriteFloatLE(x)
                 \o WriteFloatLE(x) \o WriteFloatLE(x) \o WriteUInt32LE(bpb)
                 \o [i \in 1..k |-> fill]] :
        p \in HeaderLengths, b \in HeaderLengths, x \in HeaderFloats,
        bpb \in HeaderBeats, k \in 0..MaxBody, fill \in {0, 255} }

ShortFiles == { [i \in 1..k |-> fill] : k \in 0..(HEADER_BYTES - 1),
                                        fill \in {0, 255} }

InitCodec ==
    /\ InitApp({ShortLen})
    /\ sum = SumOff
    /\ beat = BeatOff
    /\ wave = WaveOff
    /\ store = StoreOff
    /\ \/ \E payload \in AnalysisPayloads :
             codec = [CodecOff EXCEPT !.pc = "payload", !.src = "payload",
                                      !.payload = payload]
       \/ \E f \in RawFiles :
             codec = [CodecOff EXCEPT !.pc = "file", !.src = "file",
                                      !.bytes = f.bytes,
                                      !.peaksLen = f.peaksLen,
                                      !.bandsLen = f.bandsLen]
       \/ \E bytes \in ShortFiles :
             codec = [CodecOff EXCEPT !.pc = "file", !.src = "short",
                                      !.bytes = bytes]

CodecEncode ==
    /\ codec.pc = "payload"
    /\ codec' = [codec EXCEPT !.pc = "file",
                              !.bytes = EncodeWaveformBinary(codec.payload),
                              !.peaksLen = Len(codec.payload.peaks),
                              !.bandsLen = Len(codec.payload.bands)]
    /\ UNCHANGED << bunVars, viewVars, rpcQueue, toView, rpcLog, sum,
                    beat, wave, store >>

(* The file is damaged on disk: its last byte is lost, or a byte is added. *)
CodecDamage(grow) ==
    /\ codec.pc = "file"
    /\ codec.src = "payload"
    /\ codec' = [codec EXCEPT
                    !.src = "damaged",
                    !.bytes = IF grow THEN Append(@, 0)
                              ELSE SubSeq(@, 1, Len(@) - 1)]
    /\ UNCHANGED << bunVars, viewVars, rpcQueue, toView, rpcLog, sum,
                    beat, wave, store >>

CodecDecode ==
    /\ codec.pc = "file"
    /\ codec' = [codec EXCEPT !.pc = "decoded",
                              !.out = DecodeWaveformBinary(codec.bytes)]
    /\ UNCHANGED << bunVars, viewVars, rpcQueue, toView, rpcLog, sum,
                    beat, wave, store >>

NextCodec ==
    \/ CodecEncode
    \/ \E grow \in BOOLEAN : CodecDamage(grow)
    \/ CodecDecode

SpecCodec == InitCodec /\ [][NextCodec]_vars

InitBeatGrid ==
    /\ InitApp({ShortLen})
    /\ sum = SumOff
    /\ codec = CodecOff
    /\ \E pcm \in BeatInputs : beat = [BeatOff EXCEPT !.pc = "start", !.pcm = pcm]
    /\ wave = WaveOff
    /\ store = StoreOff

BeatUnchanged ==
    UNCHANGED << bunVars, viewVars, rpcQueue, toView, rpcLog, sum, codec,
                 wave, store >>

(* analyzeBeatGrid up to the onset curve, and findBestTempo up to its     *)
(* loops.  With a sample rate under 200 the hop size is 0, the frame count *)
(* is Infinity and allocating the curve throws the RangeError of an        *)
(* invalid typed array length.                                             *)
BeatStart ==
    /\ beat.pc = "start"
    /\ LET pcm == beat.pcm
           hopSize == pcm.sampleRate \div 200
           onset == ComputeMultiBandOnset(pcm, hopSize)
           frameRate == RNorm(pcm.sampleRate, hopSize)
           minLag == MinLag(pcm.sampleRate, hopSize)
           maxLag == MaxLag(pcm.sampleRate, hopSize)
       IN  IF pcm.len < pcm.sampleRate * 2
           THEN beat' = [beat EXCEPT !.pc = "done", !.result = EmptyBeatGrid]
           ELSE IF hopSize = 0
           THEN beat' = [beat EXCEPT !.pc = "thrown"]
           ELSE IF Len(onset) < 100
           THEN beat' = [beat EXCEPT !.pc = "done", !.hopSize = hopSize,
                                     !.onset = onset,
                                     !.result = EmptyBeatGrid]
           ELSE IF maxLag <= minLag + 1 \/ Len(onset) < maxLag * 2
           THEN beat' = [beat EXCEPT
                            !.pc = "double", !.pass = 1,
                            !.hopSize = hopSize, !.onset = onset,
                            !.tempoConfidence = RInt(0),
                            !.bpm = RDiv(RMul(RInt(60), frameRate),
                                         RDiv(frameRate, RInt(2)))]
           ELSE beat' = [beat EXCEPT
                            !.pc = "acf", !.hopSize = hopSize,
                            !.onset = onset, !.minLag = minLag,
                            !.maxLag = maxLag, !.lag = minLag,
                            !.acf = [k \in 1..(maxLag + 1) |-> RInt(0)],
                            !.combFilter =
                                [k \in 1..(maxLag + 1) |-> RInt(0)]]
    /\ BeatUnchanged

(* The autocorrelation loop of findBestTempo, one lag per step. *)
AcfLoop ==
    /\ beat.pc = "acf"
    /\ beat' = [beat EXCEPT
                    !.acf[beat.lag + 1] = AcfAt(beat.onset, beat.lag),
                    !.lag = IF beat.lag = beat.maxLag THEN beat.minLag
                            ELSE @ + 1,
                    !.pc = IF beat.lag = beat.maxLag THEN "comb" ELSE @]
    /\ BeatUnchanged

(* The comb loop, one lag per step. *)
CombLoop ==
    /\ beat.pc = "comb"
    /\ beat' = [beat EXCEPT
                    !.combFilter[beat.lag + 1] =
                        CombAt(beat.acf, beat.lag, beat.minLag, beat.maxLag,
                               RNorm(beat.pcm.sampleRate, beat.hopSize)),
                    !.lag = IF beat.lag = beat.maxLag THEN beat.minLag
                            ELSE @ + 1,
                    !.best = ScanStart(beat.minLag),
                    !.pc = IF beat.lag = beat.maxLag THEN "scan" ELSE @]
    /\ BeatUnchanged

(* The scan for the best lag, one lag per step. *)
ScanLoop ==
    /\ beat.pc = "scan"
    /\ beat' = [beat EXCEPT
                    !.best = ScanLag(beat.combFilter, beat.lag, @),
                    !.lag = IF beat.lag = beat.maxLag THEN @ ELSE @ + 1,
                    !.pc = IF beat.lag = beat.maxLag THEN "tempo" ELSE @]
    /\ BeatUnchanged

(* The end of findBestTempo and the tempo of its period. *)
BeatTempo ==
    /\ beat.pc = "tempo"
    /\ LET frameRate == RNorm(beat.pcm.sampleRate, beat.hopSize)
           tempo == PickTempo(beat.combFilter, beat.best, beat.minLag,
                              beat.maxLag, frameRate)
       IN  beat' = [beat EXCEPT
                       !.pc = "double", !.pass = 1,
                       !.tempoConfidence = tempo.confidence,
                       !.bpm = RDiv(RMul(RInt(60), frameRate),
                                    tempo.periodFrames)]
    /\ BeatUnchanged

(* while (bpm < 75) bpm *= 2, one iteration *)
FoldUp ==
    /\ beat.pc = "double"
    /\ RLess(beat.bpm, RInt(75))
    /\ beat' = [beat EXCEPT !.bpm = RMul(@, RInt(2)), !.doublings = @ + 1]
    /\ BeatUnchanged

FoldUpExit ==
    /\ beat.pc = "double"
    /\ ~RLess(beat.bpm, RInt(75))
    /\ beat' = [beat EXCEPT !.pc = "halve"]
    /\ BeatUnchanged

(* while (bpm > 185) bpm /= 2, one iteration *)
FoldDown ==
    /\ beat.pc = "halve"
    /\ RLess(RInt(185), beat.bpm)
    /\ beat' = [beat EXCEPT !.bpm = RDiv(@, RInt(2)), !.halvings = @ + 1]
    /\ BeatUnchanged

(* After the first fold: the beat tracker starts with score = onset and   *)
(* no predecessors.                                                        *)
BeatTrack ==
    /\ beat.pc = "halve"
    /\ beat.pass = 1
    /\ ~RLess(RInt(185), beat.bpm)
    /\ LET frameRate == RNorm(beat.pcm.sampleRate, beat.hopSize)
       IN  beat' = [beat EXCEPT
                       !.pc = "track", !.i = 1,
                       !.normalizedPeriod =
                           RDiv(RMul(RInt(60), frameRate), beat.bpm),
                       !.score = beat.onset,
                       !.predecessor = [k \in 1..Len(beat.onset) |-> -1]]
    /\ BeatUnchanged

(* The forward loop of the beat tracker, one frame per step. *)
ForwardLoop ==
    /\ beat.pc = "track"
    /\ beat.i < Len(beat.onset)
    /\ LET st == ForwardStep(beat.onset, beat.normalizedPeriod, beat.i,
                             beat.score)
       IN  beat' = [beat EXCEPT !.score[beat.i + 1] = st.bestPrevScore,
                                !.predecessor[beat.i + 1] = st.bestPrev,
                                !.i = @ + 1]
    /\ BeatUnchanged

(* The end of the beat tracker, and the early return of analyzeBeatGrid    *)
(* when it found under 4 beats.                                            *)
TrackEnd ==
    /\ beat.pc = "track"
    /\ beat.i >= Len(beat.onset)
    /\ LET beatFrames ==
               Backtrack(beat.predecessor,
                         BestEnd(beat.score, 0, Len(beat.score) - 1).frame,
                         << >>)
       IN  IF Len(beatFrames) < 4
           THEN beat' = [beat EXCEPT
                            !.pc = "done", !.beatFrames = beatFrames,
                            !.tracked = Len(beatFrames),
                            !.result = FewBeatsResult(beat.bpm,
                                                      beat.tempoConfidence)]
           ELSE beat' = [beat EXCEPT !.pc = "refine",
                                     !.beatFrames = beatFrames,
                                     !.tracked = Len(beatFrames)]
    /\ BeatUnchanged

(* refineBeatsToSamples: the next beat frame, before its search. *)
RefineBeat ==
    /\ beat.pc = "refine"
    /\ Len(beat.beatSamples) < Len(beat.beatFrames)
    /\ LET frame == beat.beatFrames[Len(beat.beatSamples) + 1]
       IN  beat' = [beat EXCEPT
                       !.pc = "search",
                       !.s = SearchStart(beat.hopSize, frame),
                       !.bestSample = frame * beat.hopSize,
                       !.bestScore = RInt(0), !.bestNone = TRUE,
                       !.refined = TRUE]
    /\ BeatUnchanged

(* The search loop, one sample per step; bestScore starts at -Infinity,    *)
(* here the flag bestNone.                                                 *)
SearchLoop ==
    /\ beat.pc = "search"
    /\ LET frame == beat.beatFrames[Len(beat.beatSamples) + 1]
           score == RefineScore(beat.pcm, beat.onset, beat.hopSize,
                                frame * beat.hopSize, beat.s)
       IN  /\ beat.s < SearchEnd(beat.pcm, beat.hopSize, frame)
           /\ IF beat.bestNone \/ RLess(beat.bestScore, score)
              THEN beat' = [beat EXCEPT !.bestScore = score,
                                        !.bestNone = FALSE,
                                        !.bestSample = beat.s,
                                        !.s = @ + 1]
              ELSE beat' = [beat EXCEPT !.s = @ + 1]
    /\ BeatUnchanged

(* After the search: refinedBeats.push(bestSample). *)
RefinePush ==
    /\ beat.pc = "search"
    /\ LET frame == beat.beatFrames[Len(beat.beatSamples) + 1]
       IN  beat.s >= SearchEnd(beat.pcm, beat.hopSize, frame)
    /\ beat' = [beat EXCEPT !.pc = "refine",
                            !.beatSamples = Append(@, beat.bestSample)]
    /\ BeatUnchanged

(* regularizeBeatGrid and the tempo of the regularized period *)
Regularize ==
    /\ beat.pc = "refine"
    /\ Len(beat.beatSamples) = Len(beat.beatFrames)
    /\ LET estimatedPeriodSamples ==
               RDiv(RInt(beat.pcm.sampleRate * 60), beat.bpm)
           grid == RegularizeBeatGrid(beat.beatSamples, estimatedPeriodSamples)
       IN  beat' = [beat EXCEPT
                       !.pc = "double", !.pass = 2,
                       !.offset = grid.offset, !.period = grid.period,
                       !.bpm = RDiv(RInt(beat.pcm.sampleRate * 60),
                                    grid.period),
                       !.regularized = TRUE]
    /\ BeatUnchanged

(* After the second fold: the final period and offset. *)
AlignBegin ==
    /\ beat.pc = "halve"
    /\ beat.pass = 2
    /\ ~RLess(RInt(185), beat.bpm)
    /\ LET finalPeriod == RDiv(RInt(beat.pcm.sampleRate * 60), beat.bpm)
           finalOffset == Wrap(beat.offset, finalPeriod)
       IN  beat' = [beat EXCEPT !.pc = "align",
                                !.finalPeriod = finalPeriod,
                                !.finalOffset = finalOffset,
                                !.beatSample = finalOffset]
    /\ BeatUnchanged

(* The alignment loop, one predicted beat per step. *)
AlignStep ==
    /\ beat.pc = "align"
    /\ RLess(beat.beatSample, RInt(beat.pcm.len))
    /\ LET frameIdx == RFloor(RDiv(beat.beatSample, RInt(beat.hopSize)))
           counted == frameIdx >= 0 /\ frameIdx < Len(beat.onset)
       IN  beat' = [beat EXCEPT
                       !.alignmentScore =
                           IF counted THEN RAdd(@, At(beat.onset, frameIdx))
                           ELSE @,
                       !.alignmentCount = IF counted THEN @ + 1 ELSE @,
                       !.beatSample = RAdd(@, beat.finalPeriod)]
    /\ BeatUnchanged

BeatFinal ==
    /\ beat.pc = "align"
    /\ ~RLess(beat.beatSample, RInt(beat.pcm.len))
    /\ LET avgAlignment ==
               IF beat.alignmentCount > 0
               THEN RDiv(beat.alignmentScore, RInt(beat.alignmentCount))
               ELSE RInt(0)
           alignmentConfidence == Clamp01(RDiv(avgAlignment, RInt(3)))
           confidence ==
               Clamp01(RAdd(RMul(beat.tempoConfidence, << 1, 2 >>),
                            RMul(alignmentConfidence, << 1, 2 >>)))
       IN  beat' = [beat EXCEPT
                       !.pc = "done",
                       !.result =
                           BeatGrid(beat.bpm, confidence,
                                    OffsetSeconds(beat.finalOffset,
                                                  beat.pcm.sampleRate),
                                    4)]
    /\ BeatUnchanged

NextBeatGrid ==
    \/ BeatStart
    \/ AcfLoop
    \/ CombLoop
    \/ ScanLoop
    \/ BeatTempo
    \/ FoldUp
    \/ FoldUpExit
    \/ FoldDown
    \/ BeatTrack
    \/ ForwardLoop
    \/ TrackEnd
    \/ RefineBeat
    \/ SearchLoop
    \/ RefinePush
    \/ Regularize
    \/ AlignBegin
    \/ AlignStep
    \/ BeatFinal

SpecBeatGrid == InitBeatGrid /\ [][NextBeatGrid]_vars

(***************************************************************************)
(* The summarizer with its numbers: analyzeWaveformFromPcm run on a buffer *)
(* and, after it has returned or thrown, run once more on the same buffer  *)
(* with the same token and resolution while the set of canceled tokens may *)
(* have changed.                                                           *)
(***************************************************************************)
MaxResolution == 3

WaveInputs ==
    { WavePcm(8000, 128, {70}, << 1, 2 >>),
      WavePcm(8000, 128, {70}, << -3, 2 >>),
      WavePcm(44100, 128, {11, 100}, RInt(1)),
      WavePcm(44100, 128, {}, RInt(0)),
      WavePcm(44100, 2, {0}, RInt(1)),
      WavePcm(100, 200, {}, RInt(0)) }

LongWaveInputs ==
    { WavePcm(48000, 96000, ClickTrain(2401, 14400, 96000), RInt(1)),
      WavePcm(48000, 96000, ClickTrain(2401, 45600, 96000), RInt(1)) }

WaveRuns ==
    (WaveInputs \X (1..MaxResolution)) \cup (LongWaveInputs \X {2})

InitWaveform ==
    /\ InitApp({ShortLen})
    /\ sum = SumOff
    /\ codec = CodecOff
    /\ beat = BeatOff
    /\ \E r \in WaveRuns : wave = WaveRun(r[1], r[2], 1, {}, 1, NoOutcome)
    /\ store = StoreOff

WaveUnchanged ==
    UNCHANGED << bunVars, viewVars, rpcQueue, toView, rpcLog, sum, codec,
                 store >>

(* One iteration of the bucket loop: the checkpoint, the peak, the frame   *)
(* and its band shares.                                                    *)
WaveBucket ==
    /\ wave.pc = "run"
    /\ wave.i < wave.samples
    /\ LET i == wave.i
           checkpoint == i % CHECKPOINT_EVERY = 0
           start == BlockStart(wave.pcm, wave.samples, i)
           end == BlockEnd(wave.pcm, wave.samples, i)
           raw == AnalyzeBands(FrameSupport(wave.pcm, start, end),
                               wave.pcm.sampleRate, FrameStride(start, end))
       IN  IF checkpoint /\ ThrowIfCanceled(wave.token, wave.canceledSet)
           THEN wave' = [wave EXCEPT !.pc = "thrown",
                                     !.outcome = Thrown("analysis canceled")]
           ELSE wave' = [wave EXCEPT
                            !.progress = IF checkpoint
                                         THEN Append(@, << i, wave.samples >>)
                                         ELSE @,
                            !.peaks[i + 1] = BlockPeak(wave.pcm, start, end),
                            !.lowRaw[i + 1] = raw[1],
                            !.midRaw[i + 1] = raw[2],
                            !.highRaw[i + 1] = raw[3],
                            !.i = i + 1]
    /\ UNCHANGED beat
    /\ WaveUnchanged

(* After the loop: the three channels are normalized, the band triples     *)
(* written, and analyzeBeatGrid is called on the same buffer.              *)
WaveBands ==
    /\ wave.pc = "run"
    /\ wave.i >= wave.samples
    /\ wave' = [wave EXCEPT
                   !.pc = "beat",
                   !.bands = Bands(NormalizeBand(wave.lowRaw),
                                   NormalizeBand(wave.midRaw),
                                   NormalizeBand(wave.highRaw), 0)]
    /\ beat' = [BeatOff EXCEPT
                   !.pc = "start",
                   !.pcm = Pcm(wave.pcm.sampleRate, wave.pcm.len,
                               wave.pcm.clicks)]
    /\ WaveUnchanged

(* analyzeBeatGrid has returned: onProgress(1) and the payload. *)
WaveReturn ==
    /\ wave.pc = "beat"
    /\ beat.pc = "done"
    /\ wave' = [wave EXCEPT
                   !.pc = "returned",
                   !.progress = Append(@, << 1, 1 >>),
                   !.outcome = Returned(WavePayload(wave.peaks, wave.bands,
                                                    beat.result))]
    /\ UNCHANGED beat
    /\ WaveUnchanged

(* analyzeBeatGrid has thrown: analyzeWaveformFromPcm has no handler. *)
WaveThrow ==
    /\ wave.pc = "beat"
    /\ beat.pc = "thrown"
    /\ wave' = [wave EXCEPT !.pc = "thrown", !.outcome = Thrown("RangeError")]
    /\ UNCHANGED beat
    /\ WaveUnchanged

(* The caller runs the analysis again on the same buffer with the same     *)
(* token and resolution; tokens may have been canceled in between.         *)
WaveAgain ==
    /\ wave.pc \in {"returned", "thrown"}
    /\ wave.run = 1
    /\ \E canceledSet \in {{}, {wave.token}, {wave.token + 1}} :
          wave' = WaveRun(wave.pcm, wave.resolution, wave.token, canceledSet,
                          2, wave.outcome)
    /\ beat' = BeatOff
    /\ WaveUnchanged

NextWaveform ==
    \/ WaveBucket
    \/ WaveBands
    \/ BeatStart
    \/ AcfLoop
    \/ CombLoop
    \/ ScanLoop
    \/ BeatTempo
    \/ FoldUp
    \/ FoldUpExit
    \/ FoldDown
    \/ BeatTrack
    \/ ForwardLoop
    \/ TrackEnd
    \/ RefineBeat
    \/ SearchLoop
    \/ RefinePush
    \/ Regularize
    \/ AlignBegin
    \/ AlignStep
    \/ BeatFinal
    \/ WaveReturn
    \/ WaveThrow
    \/ WaveAgain

SpecWaveform == InitWaveform /\ [][NextWaveform]_vars

(***************************************************************************)
(* A later session of the application.  The webview starts again with     *)
(* decodeTokenRef = useRef(0) while the cache directory keeps what earlier  *)
(* sessions wrote, which may include the file of a forced analysis: its     *)
(* key holds the track id, a digest of the file's bytes, and the token the  *)
(* earlier session's re-analysis ran under.                                *)
(***************************************************************************)
ForcedKeys == {k \in AllKeys : k.force # 0}

InitSessions ==
    /\ canceledTokens = {}
    /\ pcmLen \in [Tracks -> {ShortLen}]
    /\ \E earlier \in {{}} \cup {{k} : k \in ForcedKeys} :
          cache = [k \in AllKeys |->
                      IF k.force = 0 THEN EarlierFile(k.id, pcmLen[k.id])
                      ELSE IF k \in earlier
                      THEN WriteWaveformToCache(
                               [j \in AllKeys |-> NoFile], k,
                               PcmAnalysis(k.id, pcmLen[k.id]), TRUE)[k]
                      ELSE NoFile]
    /\ req = [t \in Tokens |-> IdleReq]
    /\ rpcQueue = <<>>
    /\ toView = <<>>
    /\ decodeTokenRef = 0
    /\ isDecoding = FALSE
    /\ error = NoError
    /\ analysisLabel = ReadyLabel
    /\ waveformData = NoPayload
    /\ activeHistoryId = "none"
    /\ decodedTrackCache = <<>>
    /\ pending = {}
    /\ load = [t \in Tokens |-> NoLoad]
    /\ events = [t \in Tokens |-> <<>>]
    /\ rpcLog = <<>>
    /\ tokenLog = <<>>
    /\ obs = [t \in Tokens |-> NoObs]
    /\ sum = SumOff
    /\ codec = CodecOff
    /\ beat = BeatOff
    /\ wave = WaveOff
    /\ store = StoreOff

SpecSessions == InitSessions /\ [][Next]_vars

(***************************************************************************)
(* The main-process handlers under an arbitrary client: the requests       *)
(* cancelWaveformAnalysis and analyzeWaveform arrive in any order, which   *)
(* the webview's own ordering never produces.                              *)
(***************************************************************************)
MaxRequests == 2

ClientRequest ==
    /\ Len(rpcLog) < MaxRequests
    /\ \E t \in Tokens :
          \E msg \in {CancelMsg(t), AnalyzeMsg(t, AnalysisKey("a", 0), "a")} :
             /\ msg.kind = "analyze" =>
                    \A k \in 1..Len(rpcLog) :
                        ~(rpcLog[k].kind = "analyze" /\ rpcLog[k].token = t)
             /\ rpcQueue' = Append(rpcQueue, msg)
             /\ rpcLog' = Append(rpcLog, msg)
    /\ UNCHANGED << bunVars, viewVars, toView, unitVars >>

NextHandlers ==
    \/ ClientRequest
    \/ Dispatch
    \/ \E t \in Tokens : CacheReadDirsFail(t)
    \/ \E t \in Tokens, fsOk \in BOOLEAN : CacheReadDone(t, fsOk)
    \/ \E t \in Tokens : DecodeFail(t)
    \/ \E t \in Tokens : DecodeDone(t)
    \/ \E t \in Tokens, fsOk \in BOOLEAN : CacheWriteDone(t, fsOk)

SpecHandlers == Init /\ [][NextHandlers]_vars

(***************************************************************************)
(* dynamicProgrammingBeatTrack on its own: short onset curves and small    *)
(* periods, so that every increasing frame sequence can be scored.         *)
(***************************************************************************)
MaxFrames == 6

OnsetValues == {RInt(0), RInt(1), RInt(50)}

TrackerPeriods == {RInt(2), << 5, 2 >>, RInt(3)}

(* searchStart and searchEnd of frame i *)
SearchWindow(periodFrames, i) ==
    Max(0, RFloor(RSub(RInt(i), RMul(periodFrames, << 6, 5 >>))))
        .. Max(0, RFloor(RSub(RInt(i), RMul(periodFrames, << 4, 5 >>))))

(* transitionLambda * deviation * deviation *)
TransitionPenalty(periodFrames, interval) ==
    LET distance == RAbs(RSub(RInt(interval), periodFrames))
        deviation == RDiv(distance, periodFrames)
    IN  RMul(RInt(100), RMul(deviation, deviation))

InitTracker ==
    /\ InitApp({ShortLen})
    /\ sum = SumOff
    /\ codec = CodecOff
    /\ wave = WaveOff
    /\ store = StoreOff
    /\ \E n \in 3..MaxFrames, periodFrames \in TrackerPeriods :
          \E onset \in [1..n -> OnsetValues] :
             beat = [BeatOff EXCEPT !.pc = "tracker", !.onset = onset,
                                    !.normalizedPeriod = periodFrames]

(* dynamicProgrammingBeatTrack up to its forward loop. *)
TrackerBegin ==
    /\ beat.pc = "tracker"
    /\ IF Len(beat.onset) < 4
       THEN beat' = [beat EXCEPT !.pc = "tracked", !.beatFrames = << >>,
                                 !.tracked = 0]
       ELSE beat' = [beat EXCEPT
                        !.pc = "track", !.i = 1, !.score = beat.onset,
                        !.predecessor = [k \in 1..Len(beat.onset) |-> -1]]
    /\ BeatUnchanged

(* After the forward loop: bestEnd, the backtracking and the reversal. *)
TrackerReturn ==
    /\ beat.pc = "track"
    /\ beat.i >= Len(beat.onset)
    /\ LET beatFrames ==
               Backtrack(beat.predecessor,
                         BestEnd(beat.score, 0, Len(beat.score) - 1).frame,
                         << >>)
       IN  beat' = [beat EXCEPT !.pc = "tracked", !.beatFrames = beatFrames,
                                !.tracked = Len(beatFrames)]
    /\ BeatUnchanged

NextTracker ==
    \/ TrackerBegin
    \/ ForwardLoop
    \/ TrackerReturn

SpecTracker == InitTracker /\ [][NextTracker]_vars

(***************************************************************************)
(* regularizeBeatGrid on its own: the call of analyzeBeatGrid on short     *)
(* lists of strictly increasing beat positions.  The hop size is 1, so the *)
(* estimated period in samples is the period in frames.                    *)
(***************************************************************************)
MaxBeats == 5

BeatIntervals == {10, 20, 30}

FirstBeats == {0, 7}

EstimatedPeriods == {15, 16}

(* The beat positions that start at first and advance by the intervals. *)
BeatPositions(first, intervals) ==
    [k \in 1..(Len(intervals) + 1) |->
        first + SumSeq(SubSeq(intervals, 1, k - 1))]

BeatLists ==
    {<< >>}
    \cup UNION { { BeatPositions(first, intervals) :
                     first \in FirstBeats,
                     intervals \in [1..(n - 1) -> BeatIntervals] } :
                 n \in 1..MaxBeats }

InitRegularizer ==
    /\ InitApp({ShortLen})
    /\ sum = SumOff
    /\ codec = CodecOff
    /\ wave = WaveOff
    /\ store = StoreOff
    /\ \E beatSamples \in BeatLists, estimate \in EstimatedPeriods :
          beat = [BeatOff EXCEPT
                     !.pc = "refine", !.pcm = Pcm(1, 0, {}), !.hopSize = 1,
                     !.normalizedPeriod = RInt(estimate),
                     !.bpm = RNorm(60, estimate),
                     !.beatFrames = beatSamples,
                     !.beatSamples = beatSamples]

NextRegularizer == Regularize

SpecRegularizer == InitRegularizer /\ [][NextRegularizer]_vars

(***************************************************************************)
(* The two track caches on their own.  A run exercises one of them and     *)
(* starts from a cache that sequential loads of the paths 1, 2, ... have   *)
(* filled in that order.  The payload cache may start with a load of path  *)
(* 1 that is still reading its file: two loads of path 1 that both missed, *)
(* of which one has inserted its payload before the loads of the other     *)
(* paths ran.                                                              *)
(***************************************************************************)
MaxCalls == 2

Paths == 1..(TRACK_PAYLOAD_CACHE_LIMIT + 1)

ModifiedPaths == {1}

DecodedIds == {BuildTrackId(p, 1) : p \in 1..(MAX_TRACK_CACHE_ITEMS + 1)}

FirstPayloads(n) ==
    [p \in 1..n |-> TrackPayload(BuildTrackId(p, 1), p)]

Ids(c) == [k \in 1..Len(c) |-> c[k].id]

PendingLoad(n, id, path) == [n |-> n, id |-> id, path |-> path]

InitCaches ==
    /\ InitApp({ShortLen})
    /\ sum = SumOff
    /\ codec = CodecOff
    /\ beat = BeatOff
    /\ wave = WaveOff
    /\ \/ \E n \in {0, TRACK_PAYLOAD_CACHE_LIMIT - 1,
                     TRACK_PAYLOAD_CACHE_LIMIT},
             calls \in {{}, {PendingLoad(0, BuildTrackId(1, 1), 1)}} :
             store = [StoreOff EXCEPT
                         !.mode = "payload",
                         !.trackPayloadCache = FirstPayloads(n),
                         !.mtime = [p \in Paths |-> 1],
                         !.calls = calls,
                         !.used = Ids(FirstPayloads(n))]
       \/ \E n \in {0, MAX_TRACK_CACHE_ITEMS - 1, MAX_TRACK_CACHE_ITEMS} :
             store = [StoreOff EXCEPT
                         !.mode = "decoded",
                         !.decodedTrackCache = FirstPayloads(n),
                         !.used = Ids(FirstPayloads(n))]

CachesUnchanged ==
    UNCHANGED << bunVars, viewVars, rpcQueue, toView, rpcLog, sum, codec,
                 beat, wave >>

(* The file of a path is written again: its modification time changes. *)
FileModified(path) ==
    /\ store.mode = "payload"
    /\ store.mtime[path] = 1
    /\ store' = [store EXCEPT !.mtime[path] = 2, !.lastHit = NoId]
    /\ CachesUnchanged

(* loadTrackPayloadByPath up to readFile: stat, the id and the lookup.  A  *)
(* hit is deleted, set again and returned; a miss goes on to read.         *)
LoadLookup(path) ==
    /\ store.mode = "payload"
    /\ store.issued < MaxCalls
    /\ LET id == BuildTrackId(path, store.mtime[path])
           c == store.trackPayloadCache
       IN  IF CacheIndex(c, id) # 0
           THEN store' = [store EXCEPT
                             !.trackPayloadCache =
                                 Append(Without(c, id), c[CacheIndex(c, id)]),
                             !.issued = @ + 1,
                             !.used = Touch(@, id),
                             !.lastHit = id]
           ELSE store' = [store EXCEPT
                             !.calls = @ \cup {PendingLoad(store.issued + 1,
                                                           id, path)},
                             !.issued = @ + 1,
                             !.lastHit = NoId]
    /\ CachesUnchanged

(* readFile rejects: the load throws and the cache is left alone. *)
LoadFail(call) ==
    /\ store.mode = "payload"
    /\ call \in store.calls
    /\ store' = [store EXCEPT !.calls = @ \ {call}, !.lastHit = NoId]
    /\ CachesUnchanged

(* loadTrackPayloadByPath after readFile: the entries of the path with     *)
(* another id are deleted, the payload is set and the Map is cut to its    *)
(* limit from the front.                                                   *)
LoadInsert(call) ==
    /\ store.mode = "payload"
    /\ call \in store.calls
    /\ LET item == TrackPayload(call.id, call.path)
           stale == StaleIds(store.trackPayloadCache, item)
           kept == SelectSeq(store.trackPayloadCache,
                             LAMBDA e : e.id \notin stale)
           set == MapSet(kept, item)
           used == Touch(Forget(store.used, stale), item.id)
           log == EvictionLog(set, used, TRACK_PAYLOAD_CACHE_LIMIT)
       IN  store' = [store EXCEPT
                        !.trackPayloadCache =
                            SelectSeq(set, LAMBDA e : e.id \notin EvictedIds(log)),
                        !.calls = @ \ {call},
                        !.used = Forget(used, EvictedIds(log)),
                        !.evictions = @ \o log,
                        !.resets = IF CacheIndex(kept, item.id) # 0
                                   THEN @ + 1 ELSE @,
                        !.lastHit = NoId]
    /\ CachesUnchanged

(* getCachedTrack *)
LookupCachedTrack(id) ==
    /\ store.mode = "decoded"
    /\ store.issued < MaxCalls
    /\ LET hit == CacheIndex(store.decodedTrackCache, id) # 0
       IN  store' = [store EXCEPT
                        !.decodedTrackCache = GetCachedTrack(@, id),
                        !.issued = @ + 1,
                        !.used = IF hit THEN Touch(@, id) ELSE @,
                        !.lastHit = IF hit THEN id ELSE NoId]
    /\ CachesUnchanged

(* storeCachedTrack *)
InsertCachedTrack(id) ==
    /\ store.mode = "decoded"
    /\ store.issued < MaxCalls
    /\ LET item == TrackPayload(id, id[1])
           set == Append(Without(store.decodedTrackCache, id), item)
           used == Touch(store.used, id)
           log == EvictionLog(set, used, MAX_TRACK_CACHE_ITEMS)
       IN  store' = [store EXCEPT
                        !.decodedTrackCache = StoreCachedTrack(@, item),
                        !.issued = @ + 1,
                        !.used = Forget(used, EvictedIds(log)),
                        !.evictions = @ \o log,
                        !.lastHit = NoId]
    /\ CachesUnchanged

NextCaches ==
    \/ \E path \in ModifiedPaths : FileModified(path)
    \/ \E path \in Paths : LoadLookup(path)
    \/ \E call \in store.calls : LoadFail(call)
    \/ \E call \in store.calls : LoadInsert(call)
    \/ \E id \in DecodedIds : LookupCachedTrack(id)
    \/ \E id \in DecodedIds : InsertCachedTrack(id)

SpecCaches == InitCaches /\ [][NextCaches]_vars

(***************************************************************************)
(* The history store on its own: upsertTrackHistory requests with one      *)
(* maxItems, served from an empty history.  A request is served in two     *)
(* steps, up to its await of writeHistory and the write, and requests may  *)
(* overlap.                                                                *)
(***************************************************************************)
MaxUpserts == 2

MaxClock == 2

HistoryIds == {"a", "b"}

HistoryNames == {"x", "y"}

HistoryLimits == {1, 2}

InitHistory ==
    /\ InitApp({ShortLen})
    /\ sum = SumOff
    /\ codec = CodecOff
    /\ beat = BeatOff
    /\ wave = WaveOff
    /\ \E maxItems \in HistoryLimits,
          file \in {NoHistoryFile, HistoryFile(<< >>),
                    [HistoryFile(<< >>) EXCEPT !.isArray = FALSE]} :
          store = [StoreOff EXCEPT !.mode = "history", !.history = file,
                                   !.maxItems = maxItems]

(* The handler is invoked: upsertHistory starts to read the history. *)
UpsertBegin(id, name) ==
    /\ store.mode = "history"
    /\ store.issued < MaxUpserts
    /\ store' = [store EXCEPT
                    !.upserts = @ \cup
                        {[NoUpsert EXCEPT !.n = store.issued + 1,
                                          !.entry = HistoryEntry(id, name, 0),
                                          !.pc = "read"]},
                    !.issued = @ + 1,
                    !.overlapped = @ \/ store.upserts # {}]
    /\ CachesUnchanged

(* readHistory resolves; the next records are computed with Date.now(). *)
UpsertRead(call, now) ==
    /\ store.mode = "history"
    /\ call \in store.upserts
    /\ call.pc = "read"
    /\ LET existing == ReadHistory(store.history)
           read == [call EXCEPT
                       !.pc = "write", !.existing = existing,
                       !.next = UpsertRecords(existing, call.entry,
                                              store.maxItems, now)]
       IN  store' = [store EXCEPT !.upserts = (@ \ {call}) \cup {read}]
    /\ CachesUnchanged

(* writeHistory: the file is replaced, and the request is answered. *)
UpsertWrite(call) ==
    /\ store.mode = "history"
    /\ call \in store.upserts
    /\ call.pc = "write"
    /\ store' = [store EXCEPT
                    !.history = HistoryFile(call.next),
                    !.upserts = @ \ {call},
                    !.upserted = @ \cup {call.entry.id},
                    !.done = call]
    /\ CachesUnchanged

NextHistory ==
    \/ \E id \in HistoryIds, name \in HistoryNames : UpsertBegin(id, name)
    \/ \E call \in store.upserts, now \in 1..MaxClock : UpsertRead(call, now)
    \/ \E call \in store.upserts : UpsertWrite(call)

SpecHistory == InitHistory /\ [][NextHistory]_vars

(***************************************************************************)
(* Properties.                                                             *)
(***************************************************************************)
Served == {t \in Tokens : obs[t].lookedUp}

PipelineEvents(t) == SelectSeq(events[t], LAMBDA e : e.stage # "cache")

(* C1: when the token is already in the canceled set at the moment the     *)
(* analysis pipeline is invoked, the request ends with the cancellation    *)
(* error, the pipeline reports no progress at all and no payload is        *)
(* returned.                                                               *)
C1_PreCanceledAborts ==
    \A t \in Tokens :
        obs[t].invokedCanceled =>
            /\ req[t].pc = "done"
            /\ obs[t].outcome = "canceled"
            /\ obs[t].result = NoPayload
            /\ PipelineEvents(t) = <<>>
            /\ ~obs[t].decoderInvoked

C1_Witness ==
    \E t \in Tokens : obs[t].invokedCanceled /\ obs[t].outcome = "canceled"

(* C2: when a cancellation check of the pipeline finds the token canceled, *)
(* the request ends with the cancellation error, writeWaveformToCache is   *)
(* never called for it and no cache file is written by it.                 *)
C2_CanceledNeverWritesCache ==
    \A t \in Tokens :
        obs[t].foundCanceled =>
            /\ req[t].pc = "done"
            /\ obs[t].outcome = "canceled"
            /\ obs[t].result = NoPayload
            /\ ~obs[t].writeCalled
            /\ ~obs[t].cacheWritten

C2_Witness ==
    \E t \in Tokens :
        /\ obs[t].foundCanceled
        /\ obs[t].decoderInvoked
        /\ obs[t].outcome = "canceled"

LoopProgress ==
    IF sum.pc = "returned"
    THEN SubSeq(sum.st.progress, 1, Len(sum.st.progress) - 1)
    ELSE sum.st.progress

(* C3: the summarizer has a checkpoint exactly at the bucket indices       *)
(* divisible by 256: after i buckets it has reported one progress value    *)
(* i/samples per such index below i, in order.  A checkpoint checks        *)
(* cancellation before it reports: the loop throws exactly when the token  *)
(* is in the canceled set at a checkpoint, and then no progress value of   *)
(* that index or a later one has been reported and no bucket of that index *)
(* or a later one has been computed.                                       *)
C3_SummarizerCheckpoints ==
    sum.pc # "off" =>
        /\ sum.st.computed = sum.st.i
        /\ Len(LoopProgress) = (sum.st.i + CHECKPOINT_EVERY - 1)
                                   \div CHECKPOINT_EVERY
        /\ \A k \in 1..Len(LoopProgress) :
               LoopProgress[k] = <<(k - 1) * CHECKPOINT_EVERY, sum.samples>>
        /\ (sum.pc = "thrown") = (sum.canceledAt >= 0)
        /\ (sum.pc = "thrown") = sum.st.thrown
        /\ sum.pc = "thrown" =>
               /\ sum.canceledAt % CHECKPOINT_EVERY = 0
               /\ sum.st.i = sum.canceledAt
               /\ sum.st.computed = sum.canceledAt
               /\ \A k \in 1..Len(sum.st.progress) :
                      sum.st.progress[k][1] < sum.canceledAt
        /\ sum.pc = "returned" =>
               /\ sum.st.i = sum.samples
               /\ sum.st.progress[Len(sum.st.progress)] = <<1, 1>>

C3_Witness ==
    /\ sum.pc = "thrown"
    /\ sum.canceledAt = CHECKPOINT_EVERY
    /\ Len(sum.st.progress) = 1

(* C4: when the cache lookup finds a valid file, the decoder and the       *)
(* analysis are never run, the only progress reported is cache 0 and       *)
(* cache 1, nothing is written to the cache and the response carries the   *)
(* payload decoded from the file.                                          *)
C4_CacheHitSkipsPipeline ==
    \A t \in Tokens :
        obs[t].lookedUp /\ obs[t].onDisk # NoPayload =>
            /\ req[t].pc = "done"
            /\ ~obs[t].decoderInvoked
            /\ ~obs[t].writeCalled
            /\ events[t] = <<Event("cache", <<0, 1>>),
                             Event("cache", <<1, 1>>)>>
            /\ obs[t].outcome = "ok"
            /\ obs[t].result = obs[t].onDisk

C4_Witness ==
    \E t \in Tokens :
        /\ obs[t].lookedUp
        /\ obs[t].onDisk # NoPayload
        /\ obs[t].outcome = "ok"

(* C5 as stated: on a hit and on a miss alike, once the lookup has         *)
(* returned the request has reported cache 0 and then cache 1 before       *)
(* anything else.                                                          *)
C5_CacheDoneReportedAlways ==
    \A t \in Served :
        /\ Len(events[t]) >= 2
        /\ events[t][1] = Event("cache", <<0, 1>>)
        /\ events[t][2] = Event("cache", <<1, 1>>)

(* C5: every request reports cache 0 before the lookup.  After the lookup  *)
(* cache 1 is reported on a hit only, as the last event of the request; on *)
(* a miss cache 1 is never reported and the event after cache 0, if any,   *)
(* is probe 0.25.                                                          *)
C5_CacheDoneReportedOnHitOnly ==
    \A t \in Tokens :
        /\ req[t].pc # "idle" =>
               /\ Len(events[t]) >= 1
               /\ events[t][1] = Event("cache", <<0, 1>>)
               /\ ~obs[t].lookedUp /\ req[t].pc = "cacheRead" =>
                      Len(events[t]) = 1
        /\ obs[t].lookedUp /\ obs[t].onDisk # NoPayload =>
               events[t] = <<Event("cache", <<0, 1>>),
                             Event("cache", <<1, 1>>)>>
        /\ obs[t].lookedUp /\ obs[t].onDisk = NoPayload =>
               /\ \A k \in 1..Len(events[t]) :
                      events[t][k] # Event("cache", <<1, 1>>)
               /\ Len(events[t]) >= 2 =>
                      events[t][2] = Event("probe", <<1, 4>>)

C5_Witness ==
    \E t, u \in Tokens :
        /\ obs[t].lookedUp /\ obs[t].onDisk = NoPayload
        /\ Len(events[t]) >= 2
        /\ obs[u].lookedUp /\ obs[u].onDisk # NoPayload

(* C6: the progress events of one request come in the stage order cache,   *)
(* probe, decode, analyze; every value lies in [0, 1]; the analyze values  *)
(* never decrease; and a request that returns a freshly analyzed payload   *)
(* has analyze 1 as its last event.                                        *)
C6_ProgressOrder ==
    \A t \in Tokens :
        /\ \A k \in 1..Len(events[t]) :
               /\ events[t][k].stage \in {"cache", "probe", "decode",
                                          "analyze"}
               /\ QLeq(<<0, 1>>, events[t][k].progress)
               /\ QLeq(events[t][k].progress, <<1, 1>>)
        /\ \A k \in 1..(Len(events[t]) - 1) :
               /\ StageRank(events[t][k].stage)
                      <= StageRank(events[t][k + 1].stage)
               /\ events[t][k].stage = "analyze" =>
                      QLeq(events[t][k].progress, events[t][k + 1].progress)
        /\ obs[t].writeCalled =>
               /\ Len(events[t]) >= 1
               /\ events[t][Len(events[t])] = Event("analyze", <<1, 1>>)

C6_Witness ==
    \E t \in Tokens :
        /\ obs[t].outcome = "ok"
        /\ obs[t].writeCalled
        /\ [k \in 1..Len(events[t]) |-> events[t][k].stage]
               = <<"cache", "probe", "decode", "analyze", "analyze">>

(* C7: the tokens issued by successive loads strictly increase, and the    *)
(* analysis request of a load with a previous token is issued only after   *)
(* the cancel request for that previous token.                             *)
C7_TokensIncreaseCancelFirst ==
    /\ \A k \in 1..(Len(tokenLog) - 1) : tokenLog[k] < tokenLog[k + 1]
    /\ \A i \in 1..Len(rpcLog) :
           rpcLog[i].kind = "analyze" /\ rpcLog[i].token > 1 =>
               \E j \in 1..(i - 1) :
                   /\ rpcLog[j].kind = "cancel"
                   /\ rpcLog[j].token = rpcLog[i].token - 1

C7_Witness ==
    /\ Len(tokenLog) >= 2
    /\ \E i \in 1..Len(rpcLog) :
           rpcLog[i].kind = "analyze" /\ rpcLog[i].token = 2

C8_OnResponse ==
    toView # <<>> /\ toView' = Tail(toView)
                  /\ Head(toView).kind = "response" =>
        /\ Head(toView).outcome = "canceled" =>
               /\ error' = error
               /\ analysisLabel' = analysisLabel
        /\ Head(toView).outcome = "decodeError"
               /\ Head(toView).token = decodeTokenRef =>
               /\ error' = DecodeFailedMessage
               /\ analysisLabel' = FailedLabel

(* C8: a request that ends with the cancellation error leaves the error    *)
(* message and the analysis label of the UI as they were; a decode failure *)
(* of the request whose token is the current one sets the error message    *)
(* "Could not decode this audio file." and the label "Failed".             *)
C8_CancelIsNotAnError == [][C8_OnResponse]_vars

C8_Witness ==
    /\ \E t \in Tokens : load[t].st = "done" /\ load[t].rpc = "canceled"
    /\ \E t \in Tokens :
           /\ load[t].st = "done" /\ load[t].rpc = "decodeError"
           /\ t = decodeTokenRef
           /\ error = DecodeFailedMessage
           /\ analysisLabel = FailedLabel

(* C9: decodeWaveformBinary returns a payload only for a buffer of at      *)
(* least 24 bytes whose length is exactly 24 + 4 * (peaksLength +          *)
(* bandsLength) for the lengths in its header; for every other buffer it   *)
(* returns null.                                                           *)
C9_DecodeAcceptsExactLength ==
    codec.pc = "decoded" =>
        LET fits == /\ codec.src # "short"
                    /\ Len(codec.bytes) >= HEADER_BYTES
                    /\ Len(codec.bytes) =
                           HEADER_BYTES + 4 * (codec.peaksLen + codec.bandsLen)
        IN  /\ codec.out # NoPayload => fits
            /\ ~fits => codec.out = NoPayload
            /\ codec.out # NoPayload =>
                   /\ Len(codec.out.peaks) = codec.peaksLen
                   /\ Len(codec.out.bands) = codec.bandsLen

C9_Witness ==
    /\ codec.pc = "decoded"
    /\ codec.src = "damaged"
    /\ Len(codec.bytes) > HEADER_BYTES + 4 * (codec.peaksLen + codec.bandsLen)
    /\ codec.out = NoPayload

(* C10 as stated: decoding the encoding of a payload gives back the same   *)
(* peaks and bands and equal bpm, bpmConfidence, beatOffset, beatsPerBar.  *)
C10_RoundTripExact ==
    codec.pc = "decoded" /\ codec.src = "payload" =>
        /\ codec.out # NoPayload
        /\ codec.out.peaks = codec.payload.peaks
        /\ codec.out.bands = codec.payload.bands
        /\ codec.out.bpm = codec.payload.bpm
        /\ codec.out.bpmConfidence = codec.payload.bpmConfidence
        /\ codec.out.beatOffset = codec.payload.beatOffset
        /\ codec.out.beatsPerBar = codec.payload.beatsPerBar

(* d is a float32 nearest to the finite double x (of float32's normal      *)
(* range): x itself when x has at most 24 significant bits.                *)
NearestFloat32(x, d) ==
    IF BitLen(x.m) <= 24 THEN d = x
    ELSE LET sh == BitLen(x.m) - 24
         IN  /\ d.t = "fin"
             /\ d.s = x.s
             /\ BitLen(d.m) <= 24
             /\ d.e >= x.e
             /\ d.e - x.e + BitLen(d.m) <= 31
             /\ LET du == d.m * 2 ^ (d.e - x.e)
                IN  /\ du % (2 ^ sh) = 0
                    /\ 2 * (IF du >= x.m THEN du - x.m ELSE x.m - du)
                           <= 2 ^ sh

(* C10: decoding the encoding of a payload gives back the same peaks and   *)
(* bands, the same beatsPerBar and a null bpm as null; a non-null bpm,     *)
(* bpmConfidence and beatOffset come back rounded to the nearest float32,  *)
(* equal to the original when it is a float32.                             *)
C10_RoundTripFloat32 ==
    codec.pc = "decoded" /\ codec.src = "payload" =>
        /\ codec.out # NoPayload
        /\ codec.out.peaks = codec.payload.peaks
        /\ codec.out.bands = codec.payload.bands
        /\ codec.out.beatsPerBar = codec.payload.beatsPerBar
        /\ (codec.out.bpm = Null) = (codec.payload.bpm = Null)
        /\ codec.payload.bpm # Null =>
               NearestFloat32(codec.payload.bpm, codec.out.bpm)
        /\ NearestFloat32(codec.payload.bpmConfidence,
                          codec.out.bpmConfidence)
        /\ NearestFloat32(codec.payload.beatOffset, codec.out.beatOffset)

C10_Witness ==
    /\ codec.pc = "decoded"
    /\ codec.src = "payload"
    /\ Len(codec.payload.peaks) > 0
    /\ codec.payload.bpm # Null
    /\ codec.out.bpm # codec.payload.bpm
    /\ codec.out.bpmConfidence # codec.payload.bpmConfidence

(* C11 as stated: no failure of the cache ends a request.  A request never *)
(* ends with the error of the storage directories, and a request whose     *)
(* analysis reached the cache write returns the analyzed payload whether   *)
(* or not the write succeeded.                                             *)
C11_CacheNeverFatal ==
    \A t \in Tokens :
        /\ obs[t].outcome # "storageError"
        /\ obs[t].writeCalled /\ req[t].pc = "done" =>
               /\ obs[t].outcome = "ok"
               /\ obs[t].result = req[t].analyzed

(* C12: when decodeMonoPcm fails, the request ends with the decoder's      *)
(* error, no decode-stage or analyze-stage progress is reported for it,    *)
(* writeWaveformToCache is not called and no payload is returned.          *)
C12_DecodeErrorPropagates ==
    \A t \in Tokens :
        obs[t].decodeFailed =>
            /\ req[t].pc = "done"
            /\ obs[t].outcome = "decodeError"
            /\ obs[t].result = NoPayload
            /\ \A k \in 1..Len(events[t]) :
                   events[t][k].stage \in {"cache", "probe"}
            /\ ~obs[t].writeCalled
            /\ ~obs[t].cacheWritten

C12_Witness ==
    \E t \in Tokens :
        /\ obs[t].decodeFailed
        /\ events[t] = <<Event("cache", <<0, 1>>), Event("probe", <<1, 4>>)>>

(* C13: whenever analyzeBeatGrid returns a tempo, the tempo lies in the    *)
(* half-open range [75, 185): at least 75 and strictly below 185.          *)
C13_BpmHalfOpen ==
    beat.pc = "done" /\ ~beat.result.bpmNull =>
        /\ RLeq(RInt(75), beat.result.bpm)
        /\ RLess(beat.result.bpm, RInt(185))

(* C14: in every beat grid analyzeBeatGrid returns, beatOffset is not      *)
(* negative and, when a tempo is returned, strictly below the final beat   *)
(* period of 60 / bpm seconds.                                             *)
C14_BeatOffsetWrapped ==
    beat.pc = "done" =>
        /\ RLeq(RInt(0), beat.result.beatOffset)
        /\ ~beat.result.bpmNull =>
               RLess(beat.result.beatOffset,
                     RDiv(RInt(60), beat.result.bpm))

(* A regularized grid whose first refined beat lies beyond one final      *)
(* period, so the phase had to be reduced, returned with a phase above 0.  *)
C14_Witness ==
    /\ beat.pc = "done"
    /\ beat.regularized
    /\ RLess(beat.finalPeriod, RInt(beat.beatSamples[1]))
    /\ RLess(RInt(0), beat.result.beatOffset)

(* C15: a track shorter than two seconds, an onset curve of fewer than 100 *)
(* frames or a tracker result of fewer than four beats returns beatOffset  *)
(* 0 and beatsPerBar 4 with neither refinement nor regularization run, and *)
(* every returned grid has beatsPerBar 4.                                  *)
C15_ShortCircuitPaths ==
    beat.pc = "done" =>
        /\ beat.result.beatsPerBar = 4
        /\ ( \/ beat.pcm.len < beat.pcm.sampleRate * 2
             \/ Len(beat.onset) < 100
             \/ beat.tracked \in 0..3 )
           => ( /\ beat.result.beatOffset = RInt(0)
                /\ ~beat.refined
                /\ ~beat.regularized )

(* The tracker ran on a two-second track and returned one to three beats. *)
C15_Witness ==
    /\ beat.pc = "done"
    /\ beat.pcm.len >= beat.pcm.sampleRate * 2
    /\ beat.tracked \in 1..3
    /\ ~beat.result.bpmNull
    /\ beat.result.beatsPerBar = 4

(* C18: an all-zero buffer of at least two seconds raises no exception and *)
(* yields a beat grid whose bpm is null or whose bpmConfidence is 0.       *)
C18_SilentNoException ==
    beat.pcm.clicks = {} /\ beat.pcm.len >= beat.pcm.sampleRate * 2 =>
        /\ beat.pc # "thrown"
        /\ beat.pc = "done" =>
               \/ beat.result.bpmNull
               \/ beat.result.bpmConfidence = RInt(0)

(* C16: for a resolution N with 1 <= N <= input length the summarizer      *)
(* returns exactly N peaks and 3N band values, and every peak lies in      *)
(* [0, 1].                                                                 *)
C16_PeaksShapeAndRange ==
    /\ wave.outcome.kind = "returned"
    /\ wave.resolution >= 1
    /\ wave.resolution <= wave.pcm.len
    => /\ Len(wave.outcome.payload.peaks) = wave.resolution
       /\ Len(wave.outcome.payload.bands) = 3 * wave.resolution
       /\ \A k \in 1..Len(wave.outcome.payload.peaks) :
             /\ RLeq(RInt(0), wave.outcome.payload.peaks[k])
             /\ RLeq(wave.outcome.payload.peaks[k], RInt(1))

(* C17: in every summary the summarizer returns, silent input included,    *)
(* the three band values of each bucket are at least 0 and add up to       *)
(* within 1e-3 of 1.                                                       *)
C17_BandTriplesSumToOne ==
    wave.outcome.kind = "returned" =>
        \A i \in 0..(wave.samples - 1) :
            LET bands == wave.outcome.payload.bands
                total == RAdd(RAdd(At(bands, 3 * i), At(bands, 3 * i + 1)),
                              At(bands, 3 * i + 2))
            IN  /\ \A c \in 0..2 : RLeq(RInt(0), At(bands, 3 * i + c))
                /\ RLeq(RAbs(RSub(total, RInt(1))), << 1, 1000 >>)

C20_ForcedNeverCached ==
    \A t \in Tokens :
        req[t].pc # "idle" /\ req[t].key.force # 0 /\ obs[t].lookedUp =>
            /\ ~Hit(obs[t].onDisk)
            /\ obs[t].outcome = "ok" => obs[t].decoderInvoked

C21_OnStaleMessage ==
    /\ toView # <<>>
    /\ toView' = Tail(toView)
    /\ Head(toView).token # decodeTokenRef
    => UNCHANGED << activeHistoryId, waveformData, error, isDecoding,
                    analysisLabel >>

(* C21: the response (success or failure) of a request whose token is no   *)
(* longer the latest issued one, and a progress event carrying such a      *)
(* token, leave the loaded track, the waveform, the error message,         *)
(* isDecoding and the analysis label as they were.                         *)
C21_StaleCompletionInert == [][C21_OnStaleMessage]_vars

(* A request answered with a payload after a later load was issued: its    *)
(* track was neither applied nor stored in the decoded-track cache.        *)
C21_Witness ==
    \E t \in Tokens :
        /\ load[t].st = "done"
        /\ load[t].rpc = "ok"
        /\ load[t].web = "ok"
        /\ t # decodeTokenRef
        /\ CacheIndex(decodedTrackCache, load[t].track) = 0
        /\ activeHistoryId # load[t].track

(* The requests the handlers have taken so far, in order. *)
Dispatched == SubSeq(rpcLog, 1, Len(rpcLog) - Len(rpcQueue))

CanceledAfterStart(t) ==
    \E i, j \in 1..Len(Dispatched) :
        /\ i < j
        /\ Dispatched[i].kind = "analyze" /\ Dispatched[i].token = t
        /\ Dispatched[j].kind = "cancel" /\ Dispatched[j].token = t

C22_SetChanges ==
    canceledTokens' # canceledTokens =>
        /\ rpcQueue # <<>>
        /\ rpcQueue' = Tail(rpcQueue)
        /\ \/ /\ Head(rpcQueue).kind = "cancel"
              /\ canceledTokens' = canceledTokens \cup {Head(rpcQueue).token}
           \/ /\ Head(rpcQueue).kind = "analyze"
              /\ canceledTokens' = canceledTokens \ {Head(rpcQueue).token}

C22_OnlyLaterCancelCounts ==
    \A t \in Tokens :
        obs[t].foundCanceled \/ obs[t].outcome = "canceled" =>
            CanceledAfterStart(t)

(* C22: the canceled-token set changes only when cancelWaveformAnalysis(t) *)
(* adds t and when an analyzeWaveform request with token t starts and      *)
(* removes t; so a request is found canceled only by a cancel handled      *)
(* after its start, and a cancel handled before its start is erased.       *)
C22_CancelSetLifecycle == [][C22_SetChanges]_vars /\ []C22_OnlyLaterCancelCounts

(* A cancel for t was handled, then the request for t started, and the     *)
(* request was answered with a payload.                                    *)
C22_Witness ==
    \E t \in Tokens :
        /\ obs[t].outcome = "ok"
        /\ ~CanceledAfterStart(t)
        /\ \E i, j \in 1..Len(Dispatched) :
              /\ i < j
              /\ Dispatched[i].kind = "cancel" /\ Dispatched[i].token = t
              /\ Dispatched[j].kind = "analyze" /\ Dispatched[j].token = t

(* C23: the hop size of the beat analysis is round(sampleRate / 200) for   *)
(* every sample rate, and the onset curve holds exactly                    *)
(* floor(len / hopSize) values, none negative, or is empty when fewer     *)
(* than 2 frames fit.                                                      *)
C23_HopSizeRounded ==
    beat.hopSize > 0 =>
        /\ beat.hopSize = (2 * beat.pcm.sampleRate + 200) \div 400
        /\ Len(beat.onset) =
               IF beat.pcm.len \div beat.hopSize < 2 THEN 0
               ELSE beat.pcm.len \div beat.hopSize
        /\ \A k \in 1..Len(beat.onset) : RLeq(RInt(0), beat.onset[k])

(* The intervals between consecutive beats of the returned sequence. *)
StrictlyIncreasing(frames) ==
    \A k \in 1..(Len(frames) - 1) : frames[k] < frames[k + 1]

C25_IntervalsWithinTolerance ==
    Len(beat.beatFrames) >= 2 =>
        \A k \in 1..(Len(beat.beatFrames) - 1) :
            LET interval == RInt(beat.beatFrames[k + 1] - beat.beatFrames[k])
            IN  /\ RLeq(RMul(beat.normalizedPeriod, << 4, 5 >>), interval)
                /\ RLeq(interval, RMul(beat.normalizedPeriod, << 6, 5 >>))

(* The greatest frame of a non-empty set of frames. *)
LastFrame(S) == CHOOSE i \in S : \A j \in S : j <= i

(* The score of the path through the frames of S: the sum of onset[i]     *)
(* over its frames minus the penalty of each transition.                   *)
RECURSIVE PathScore(_, _, _)
PathScore(onset, periodFrames, S) ==
    IF S = {} THEN RInt(0)
    ELSE LET i == LastFrame(S)
             rest == S \ {i}
         IN  IF rest = {} THEN At(onset, i)
             ELSE RSub(RAdd(PathScore(onset, periodFrames, rest),
                            At(onset, i)),
                       TransitionPenalty(periodFrames, i - LastFrame(rest)))

(* The non-empty increasing frame sequences below n, as sets, in which     *)
(* every frame's predecessor lies between searchStart and searchEnd.       *)
WindowPaths(n, periodFrames) ==
    { S \in SUBSET (0..(n - 1)) :
        /\ S # {}
        /\ \A i \in S :
              LET earlier == {j \in S : j < i}
              IN  earlier # {} =>
                      LastFrame(earlier) \in SearchWindow(periodFrames, i) }

BeatFrameSet == {beat.beatFrames[k] : k \in 1..Len(beat.beatFrames)}

ReturnedPathIsBest ==
    \A S \in WindowPaths(Len(beat.onset), beat.normalizedPeriod) :
        RLeq(PathScore(beat.onset, beat.normalizedPeriod, S),
             PathScore(beat.onset, beat.normalizedPeriod, BeatFrameSet))

RetainedIntervals(beatSamples) ==
    LET intervals ==
            SortAscending([i \in 1..(Len(beatSamples) - 1) |->
                              beatSamples[i + 1] - beatSamples[i]])
        q1 == At(intervals, Len(intervals) \div 4)
        q3 == At(intervals, (3 * Len(intervals)) \div 4)
    IN  SelectSeq(intervals,
                  LAMBDA i : /\ 2 * q1 - 3 * (q3 - q1) <= 2 * i
                             /\ 2 * i <= 2 * q3 + 3 * (q3 - q1))

(* The median of a non-empty ascending list: its middle element, or the    *)
(* mean of its two middle elements.                                        *)
Median(sorted) ==
    IF Len(sorted) % 2 = 1 THEN RInt(sorted[(Len(sorted) + 1) \div 2])
    ELSE RNorm(sorted[Len(sorted) \div 2] + sorted[Len(sorted) \div 2 + 1],
               2)

(* The element at index floor(length / 2) of an ascending list. *)
UpperMiddle(sorted) == RInt(At(sorted, Len(sorted) \div 2))

(* What regularizeBeatGrid has returned, around the period `middle`. *)
RegularizedAround(middle) ==
    IF Len(beat.beatSamples) < 4
    THEN /\ beat.offset = IF beat.beatSamples = << >> THEN RInt(0)
                          ELSE RInt(beat.beatSamples[1])
         /\ beat.period = RMul(beat.normalizedPeriod, RInt(beat.hopSize))
    ELSE /\ RLeq(RMul(middle, << 49, 50 >>), beat.period)
         /\ RLeq(beat.period, RMul(middle, << 51, 50 >>))
         /\ RLeq(RInt(0), beat.offset)
         /\ RLess(beat.offset, beat.period)

JustRegularized == beat.regularized /\ beat.pc = "double" /\ beat.pass = 2

(* C27: from at least 4 strictly increasing beats regularizeBeatGrid       *)
(* returns a period within [0.98, 1.02] times the median of the            *)
(* IQR-retained intervals and an offset in [0, period); from fewer than 4  *)
(* beats it returns the first beat (or 0) and the estimated period.        *)
C27_PeriodNearMedian ==
    JustRegularized =>
        RegularizedAround(Median(RetainedIntervals(beat.beatSamples)))

(* The same with the element at index floor(length / 2) of the retained    *)
(* intervals in place of their median.                                     *)
PeriodNearUpperMiddle ==
    JustRegularized =>
        RegularizedAround(UpperMiddle(RetainedIntervals(beat.beatSamples)))

(* Every size eviction so far removed the least recently used entry. *)
EvictionsLeastRecent ==
    \A k \in 1..Len(store.evictions) :
        store.evictions[k].id = store.evictions[k].leastRecent

HitIsNewest ==
    store.lastHit # NoId =>
        LET c == IF store.mode = "payload" THEN store.trackPayloadCache
                 ELSE store.decodedTrackCache
        IN  c # << >> /\ c[Len(c)].id = store.lastHit

WithinLimits ==
    /\ Len(store.trackPayloadCache) <= TRACK_PAYLOAD_CACHE_LIMIT
    /\ Len(store.decodedTrackCache) <= MAX_TRACK_CACHE_ITEMS

StoredHistory == ReadHistory(store.history)

StoredIds == {StoredHistory[k].id : k \in 1..Len(StoredHistory)}

(* C29: from an empty history and after upserts that did not overlap, the  *)
(* stored history has no two entries with the same id and at most maxItems *)
(* entries, is sorted by createdAt descending, and the last upsert of an   *)
(* id that was stored has kept its createdAt and replaced its other        *)
(* fields.                                                                 *)
C29_HistoryInvariants ==
    ~store.overlapped =>
        /\ \A i, j \in 1..Len(StoredHistory) :
              i # j => StoredHistory[i].id # StoredHistory[j].id
        /\ Len(StoredHistory) <= store.maxItems
        /\ \A i \in 1..(Len(StoredHistory) - 1) :
              StoredHistory[i].createdAt >= StoredHistory[i + 1].createdAt
        /\ \A k \in 1..Len(store.done.existing) :
              store.done.existing[k].id = store.done.entry.id =>
                  \E i \in 1..Len(StoredHistory) :
                      StoredHistory[i] =
                          [store.done.entry EXCEPT
                              !.createdAt = store.done.existing[k].createdAt]

(* An upsert has replaced the name of a stored entry, in a history that    *)
(* holds maxItems entries.                                                 *)
C29_Witness ==
    /\ ~store.overlapped
    /\ store.upserts = {}
    /\ Len(StoredHistory) = store.maxItems
    /\ \E k \in 1..Len(store.done.existing) :
          /\ store.done.existing[k].id = store.done.entry.id
          /\ store.done.existing[k].name # store.done.entry.name

(* C30: once two overlapping upserts of different ids have both been       *)
(* answered, both ids are in the stored history, provided that the ids     *)
(* upserted so far do not exceed maxItems.                                 *)
C30_ConcurrentUpsertsKept ==
    /\ store.upserts = {}
    /\ Cardinality(store.upserted) <= store.maxItems
    => store.upserted \subseteq StoredIds

====
